---- MODULE Spec2Model ----
(***************************************************************************)
(* invenio-aisearch: the query parser, the two search backends (the k-NN   *)
(* AISearchService and the brute-force SearchService over a loaded         *)
(* embedding table), and the HTTP handlers in front of them.               *)
(*                                                                         *)
(* Conventions.  A Python Optional is a sequence of length 0 (None) or 1.  *)
(* Text is a TLA+ string.  A float score is an exact integer: a cosine is  *)
(* held as 100 * cosine (the vectors of the model have integer norms), a   *)
(* hybrid score as 1000 * n * score, n the number of search terms.         *)
(***************************************************************************)
EXTENDS Integers, Sequences, FiniteSets, TLC

None == <<>>

Some(v) == <<v>>

\* Python truthiness of an Optional[int]: None and 0 are falsy.
Truthy(o) == o # None /\ o[1] # 0

\* Python truthiness of an Optional[str]: None and "" are falsy.
TruthyStr(o) == o # None /\ o[1] # ""

Min(a, b) == IF a <= b THEN a ELSE b

Max(a, b) == IF a >= b THEN a ELSE b

(***************************************************************************)
(* Text primitives (str.lower, str.strip, `in`, str.replace, re.sub).      *)
(***************************************************************************)
Digits == {"0", "1", "2", "3", "4", "5", "6", "7", "8", "9"}

Whitespace == {" ", "\t", "\n"}

CharAt(s, i) == SubSeq(s, i, i)

DigitVal(c) ==
    CASE c = "0" -> 0 [] c = "1" -> 1 [] c = "2" -> 2 [] c = "3" -> 3
      [] c = "4" -> 4 [] c = "5" -> 5 [] c = "6" -> 6 [] c = "7" -> 7
      [] c = "8" -> 8 [] c = "9" -> 9

LowerChar(c) ==
    CASE c = "A" -> "a" [] c = "B" -> "b" [] c = "C" -> "c" [] c = "D" -> "d"
      [] c = "E" -> "e" [] c = "F" -> "f" [] c = "G" -> "g" [] c = "H" -> "h"
      [] c = "I" -> "i" [] c = "J" -> "j" [] c = "K" -> "k" [] c = "L" -> "l"
      [] c = "M" -> "m" [] c = "N" -> "n" [] c = "O" -> "o" [] c = "P" -> "p"
      [] c = "Q" -> "q" [] c = "R" -> "r" [] c = "S" -> "s" [] c = "T" -> "t"
      [] c = "U" -> "u" [] c = "V" -> "v" [] c = "W" -> "w" [] c = "X" -> "x"
      [] c = "Y" -> "y" [] c = "Z" -> "z" [] OTHER -> c

RECURSIVE Lower(_)
Lower(s) == IF s = "" THEN "" ELSE LowerChar(CharAt(s, 1)) \o Lower(Tail(s))

RECURSIVE LStrip(_)
LStrip(s) ==
    IF s # "" /\ CharAt(s, 1) \in Whitespace THEN LStrip(Tail(s)) ELSE s

RECURSIVE RStrip(_)
RStrip(s) ==
    IF s # "" /\ CharAt(s, Len(s)) \in Whitespace
    THEN RStrip(SubSeq(s, 1, Len(s) - 1))
    ELSE s

Strip(s) == RStrip(LStrip(s))

\* sub occurs in s starting at position i
MatchAt(s, i, sub) ==
    /\ i >= 1
    /\ i + Len(sub) - 1 <= Len(s)
    /\ SubSeq(s, i, i + Len(sub) - 1) = sub

\* Python `sub in s`
Contains(s, sub) == \E i \in 1..(Len(s) + 1) : MatchAt(s, i, sub)

\* Python s.replace(sub, ""): one left-to-right pass, non-overlapping
RECURSIVE Remove(_, _)
Remove(s, sub) ==
    IF s = "" THEN ""
    ELSE IF MatchAt(s, 1, sub) THEN Remove(SubSeq(s, Len(sub) + 1, Len(s)), sub)
    ELSE CharAt(s, 1) \o Remove(Tail(s), sub)

\* variant: the digits stay
RemoveDigits_kept(s) == s

\* re.sub(r'\d+', '', s)
RECURSIVE RemoveDigits(_)
RemoveDigits(s) ==
    IF s = "" THEN ""
    ELSE IF CharAt(s, 1) \in Digits THEN RemoveDigits(Tail(s))
    ELSE CharAt(s, 1) \o RemoveDigits(Tail(s))

\* int(s) for a run of decimal digits
RECURSIVE ToInt(_)
ToInt(s) ==
    IF s = "" THEN 0
    ELSE 10 * ToInt(SubSeq(s, 1, Len(s) - 1)) + DigitVal(CharAt(s, Len(s)))

(***************************************************************************)
(* QueryParser (query_parser.py).                                          *)
(***************************************************************************)
\* the alternation (book|novel|stor|text|work) of both limit patterns
NounStems == {"book", "novel", "stor", "text", "work"}

\* number_words, in dictionary (insertion) order
number_words ==
    << [word |-> "one", num |-> 1], [word |-> "two", num |-> 2],
       [word |-> "three", num |-> 3], [word |-> "four", num |-> 4],
       [word |-> "five", num |-> 5], [word |-> "six", num |-> 6],
       [word |-> "seven", num |-> 7], [word |-> "eight", num |-> 8],
       [word |-> "nine", num |-> 9], [word |-> "ten", num |-> 10] >>

\* last position of the run of digits that starts at i
RECURSIVE DigitRunEnd(_, _)
DigitRunEnd(s, i) ==
    IF i + 1 <= Len(s) /\ CharAt(s, i + 1) \in Digits
    THEN DigitRunEnd(s, i + 1)
    ELSE i

\* first position at or after i that is not whitespace (\s*)
RECURSIVE SkipWs(_, _)
SkipWs(s, i) ==
    IF i <= Len(s) /\ CharAt(s, i) \in Whitespace THEN SkipWs(s, i + 1) ELSE i

StemAt(s, i) == \E stem \in NounStems : MatchAt(s, i, stem)

\* r'(\d+)\s*(book|novel|stor|text|work)' matches with its first digit at i
NumericLimitAt(s, i) ==
    /\ i <= Len(s)
    /\ CharAt(s, i) \in Digits
    /\ StemAt(s, SkipWs(s, DigitRunEnd(s, i) + 1))

\* rf'{word}\s*(book|novel|stor|text|work)' matches somewhere in s
WordLimitIn(s, word) ==
    \E i \in 1..Len(s) :
        MatchAt(s, i, word) /\ StemAt(s, SkipWs(s, i + Len(word)))

RECURSIVE FirstWordLimit(_, _)
FirstWordLimit(s, k) ==
    IF k > Len(number_words) THEN None
    ELSE IF WordLimitIn(s, number_words[k].word) THEN Some(number_words[k].num)
    ELSE FirstWordLimit(s, k + 1)

\* QueryParser._extract_limit: Optional[int]
_extract_limit(query) ==
    IF \E i \in 1..Len(query) : NumericLimitAt(query, i)
    THEN LET i == CHOOSE a \in 1..Len(query) :
                      /\ NumericLimitAt(query, a)
                      /\ \A b \in 1..(a - 1) : ~NumericLimitAt(query, b)
         IN  Some(ToInt(SubSeq(query, i, DigitRunEnd(query, i))))
    ELSE FirstWordLimit(query, 1)

\* variant: the list phrases are tested before the count phrases
_parse_intent_listFirst(query) ==
    IF \E w \in {"list all", "show all"} : Contains(query, w)
    THEN "list"
    ELSE IF \E w \in {"how many", "count", "number of"} : Contains(query, w)
    THEN "count"
    ELSE "search"

\* QueryParser._parse_intent
_parse_intent(query) ==
    IF \E w \in {"how many", "count", "number of"} : Contains(query, w)
    THEN "count"
    ELSE IF \E w \in {"list all", "show all"} : Contains(query, w)
    THEN "list"
    ELSE "search"

\* ATTRIBUTE_PATTERNS with ATTRIBUTE_SUBJECT_MAPPING, in table order; each
\* regular expression is written out as the set of literals it matches
ATTRIBUTE_PATTERNS ==
    << [name |-> "female_protagonist",
        patterns |-> {"female protagonist", "women protagonist",
                      "female main character", "heroine",
                      "strong female character"},
        terms |-> {"female", "women", "protagonist"}],
       [name |-> "male_protagonist",
        patterns |-> {"male protagonist", "male main character", "hero"},
        terms |-> {"male", "protagonist"}],
       [name |-> "author_gender_female",
        patterns |-> {"by a woman", "by a women", "by woman", "by women",
                      "female author", "women writer"},
        terms |-> {"women", "female"}],
       [name |-> "genre_romance",
        patterns |-> {"love story", "love stories", "romance", "romantic"},
        terms |-> {"love", "romance"}],
       [name |-> "genre_adventure",
        patterns |-> {"adventure", "quest"},
        terms |-> {"adventure"}],
       [name |-> "genre_tragedy",
        patterns |-> {"tragic", "tragedy", "tragedies"},
        terms |-> {"tragedy", "tragic"}],
       [name |-> "theme_social_injustice",
        patterns |-> {"social injustice", "inequality", "oppression"},
        terms |-> {"social", "injustice", "slavery"}],
       [name |-> "theme_war",
        patterns |-> {"about war", "war stories", "warfare"},
        terms |-> {"war"}],
       [name |-> "era_victorian",
        patterns |-> {"victorian", "19th century"},
        terms |-> {"victorian", "19th"}] >>

AttributeMatches(query_lower, k) ==
    \E pat \in ATTRIBUTE_PATTERNS[k].patterns : Contains(query_lower, pat)

\* variant: a category is reported once for each of its matching patterns
RECURSIVE ExtractAttributes_noBreak(_, _)
ExtractAttributes_noBreak(query_lower, k) ==
    IF k > Len(ATTRIBUTE_PATTERNS) THEN <<>>
    ELSE [i \in 1..Cardinality({pat \in ATTRIBUTE_PATTERNS[k].patterns :
                                   Contains(query_lower, pat)})
             |-> ATTRIBUTE_PATTERNS[k].name]
         \o ExtractAttributes_noBreak(query_lower, k + 1)

\* the loop over ATTRIBUTE_PATTERNS.items() of QueryParser.parse
RECURSIVE ExtractAttributes(_, _)
ExtractAttributes(query_lower, k) ==
    IF k > Len(ATTRIBUTE_PATTERNS) THEN <<>>
    ELSE (IF AttributeMatches(query_lower, k)
          THEN <<ATTRIBUTE_PATTERNS[k].name>> ELSE <<>>)
         \o ExtractAttributes(query_lower, k + 1)

ExtractSearchTerms(query_lower) ==
    UNION {ATTRIBUTE_PATTERNS[k].terms :
              k \in {j \in 1..Len(ATTRIBUTE_PATTERNS) :
                        AttributeMatches(query_lower, j)}}

command_words ==
    <<"show me", "find me", "get me", "give me", "list", "search for">>

RECURSIVE RemoveCommands(_, _)
RemoveCommands(s, k) ==
    IF k > Len(command_words) THEN s
    ELSE RemoveCommands(Remove(s, command_words[k]), k + 1)

\* QueryParser.parse
parse(query) ==
    LET query_lower == Strip(Lower(query))
    IN  [original_query |-> query,
         intent |-> _parse_intent(query_lower),
         limit |-> _extract_limit(query_lower),
         attributes |-> ExtractAttributes(query_lower, 1),
         search_terms |-> ExtractSearchTerms(query_lower),
         semantic_query |-> Strip(RemoveDigits(RemoveCommands(query_lower, 1)))]

\* the query texts of the model
QuerySeq ==
    << "", "books", "0 books", "3 novels", "500 books", "ten stories",
       "Show me 3 books with female protagonists" >>

Queries == {QuerySeq[i] : i \in 1..Len(QuerySeq)}

\* parse, tabulated once for the query texts of the model
RECURSIVE ParseTableTo(_)
ParseTableTo(i) ==
    IF i = 1 THEN QuerySeq[1] :> parse(QuerySeq[1])
    ELSE (QuerySeq[i] :> parse(QuerySeq[i])) @@ ParseTableTo(i - 1)

ParseTable == ParseTableTo(Len(QuerySeq))

Parsed(query) ==
    IF query \in DOMAIN ParseTable THEN ParseTable[query] ELSE parse(query)

(***************************************************************************)
(* Vectors and scores.                                                     *)
(***************************************************************************)
Dot(a, b) == a[1] * b[1] + a[2] * b[2]

\* np.linalg.norm; every vector of the model has an integer norm
Norm(a) == CHOOSE n \in 0..(Dot(a, a)) : n * n = Dot(a, a)

\* search_service.cosine_similarity, as 100 * cosine
cosine_similarity(vec1, vec2) ==
    IF Norm(vec1) = 0 \/ Norm(vec2) = 0
    THEN 0
    ELSE (100 * Dot(vec1, vec2)) \div (Norm(vec1) * Norm(vec2))

\* variant: the slice is not taken
Prefix_whole(seq, n) == seq

\* Python seq[:n] for n >= 0
Prefix(seq, n) == SubSeq(seq, 1, Min(n, Len(seq)))

\* variant: x goes in front of the elements whose key equals its own
InsertDesc_unstable(sorted, x) ==
    LET n == Cardinality({k \in 1..Len(sorted) : sorted[k].key > x.key})
    IN  SubSeq(sorted, 1, n) \o <<x>> \o SubSeq(sorted, n + 1, Len(sorted))

\* one step of a stable descending sort: x goes behind every element whose
\* key is at least its own (sorted is in descending order of key)
InsertDesc(sorted, x) ==
    LET n == Cardinality({k \in 1..Len(sorted) : sorted[k].key >= x.key})
    IN  SubSeq(sorted, 1, n) \o <<x>> \o SubSeq(sorted, n + 1, Len(sorted))

\* insertion sort of the first n items
RECURSIVE InsertionSort(_, _)
InsertionSort(items, n) ==
    IF n = 0 THEN <<>>
    ELSE InsertDesc(InsertionSort(items, n - 1), items[n])

IsSortedDesc(items) ==
    \A i \in 1..(Len(items) - 1) : items[i].key >= items[i + 1].key

\* variant: the list is left in scan order
SortDesc_unsorted(items) == items

\* list.sort(key=..., reverse=True), which is stable, for a sequence of
\* records [key, val]; a list already in descending order is left as it is
SortDesc(items) ==
    IF IsSortedDesc(items) THEN items ELSE InsertionSort(items, Len(items))

(***************************************************************************)
(* ModelManager (models.py): the two models are opaque services.           *)
(***************************************************************************)
QueryVectors == << <<1, 0>>, <<0, 1>>, <<3, 4>> >>

\* SentenceTransformer.encode: a fixed function of the text
encode(text) == QueryVectors[(Len(text) % Len(QueryVectors)) + 1]

max_input_length == 1024

\* the summarization pipeline: a fixed function of the (truncated) text
summarizer(text) == "summary:" \o SubSeq(text, 1, Min(Len(text), 12))

\* ModelManager.generate_summary, once the pipeline is loaded
generate_summary(text) ==
    summarizer(IF Len(text) > max_input_length
               THEN SubSeq(text, 1, max_input_length)
               ELSE text)

(***************************************************************************)
(* AISearchService (services/service/ai_search_service.py) over the k-NN   *)
(* index.  A document of the index is                                      *)
(*   [id, embedding : Optional vector, title, description : Optional str]. *)
(* The environment of one call is env = [model_ok, index_ok,               *)
(* summarizer_ok : BOOLEAN, bad : record id]: whether a model load that    *)
(* the call triggers succeeds, whether the index answers, and the record   *)
(* whose text makes the summarizer raise (0: none).                        *)
(***************************************************************************)
\* AISearchServiceConfig
default_limit == 10

max_limit == 100

enable_summaries == TRUE

\* the description length above which the summarizer is called
summary_threshold == 500

\* the score OpenSearch gives a hit in a cosinesimil space: (1 + cos) / 2,
\* held as 100 * (1 + cos)
knn_score(vector, doc) == 100 + cosine_similarity(vector, doc.embedding[1])

\* a document as a hit: the embedding is excluded from _source
Hit(vector, doc) ==
    [key |-> knn_score(vector, doc),
     val |-> [_source |-> [id |-> doc.id, title |-> doc.title,
                           description |-> doc.description],
              _score |-> knn_score(vector, doc)]]

Vals(pairs) == [i \in 1..Len(pairs) |-> pairs[i].val]

\* current_search_client.search with a knn query: the documents that carry
\* an embedding, best first, at most `size` of them
knn_search(idx, vector, size) ==
    LET cand == SelectSeq(idx, LAMBDA d : d.embedding # None)
        hits == [j \in 1..Len(cand) |-> Hit(vector, cand[j])]
    IN  Vals(Prefix(SortDesc(hits), size))

\* current_search_client.search with {"term": {"id": record_id}}, size 1
term_search(idx, record_id) ==
    Prefix(SelectSeq(idx, LAMBDA d : d.id = record_id), 1)

\* the result item built from one hit (without summary)
ResultItem(hit) ==
    [record_id |-> hit._source.id,
     title |-> IF hit._source.title = None THEN "Untitled"
               ELSE hit._source.title[1],
     similarity_score |-> hit._score,
     summary |-> None]

\* the summary branch of the loop of AISearchService.search for one hit
NeedsSummarizer(hit) ==
    /\ TruthyStr(hit._source.description)
    /\ Len(hit._source.description[1]) > summary_threshold

\* variant: every description is summarized, whatever its length
SummaryOf_always(hit) ==
    IF ~TruthyStr(hit._source.description) THEN Some(ResultItem(hit).title)
    ELSE Some(generate_summary(hit._source.description[1]))

\* the summary of one hit when summaries are requested
SummaryOf(hit) ==
    IF ~TruthyStr(hit._source.description) THEN Some(ResultItem(hit).title)
    ELSE IF NeedsSummarizer(hit)
    THEN Some(generate_summary(hit._source.description[1]))
    ELSE hit._source.description

\* the loop over the hits of AISearchService.search, with sm telling
\* whether the summarization pipeline is loaded: the result items, whether
\* generate_summary raised (on loading the pipeline for the first long
\* description, or on the record env.bad), and sm afterwards
ParseHits(hits, include_summaries, env, sm) ==
    LET summaries == include_summaries /\ enable_summaries
        long == {i \in 1..Len(hits) : summaries /\ NeedsSummarizer(hits[i])}
    IN
    IF long # {} /\ ~sm /\ ~env.summarizer_ok
    THEN [results |-> <<>>, raised |-> TRUE, sm |-> FALSE]
    ELSE IF \E i \in long : hits[i]._source.id = env.bad
    THEN [results |-> <<>>, raised |-> TRUE, sm |-> TRUE]
    ELSE [results |->
              [i \in 1..Len(hits) |->
                  IF summaries
                  THEN [ResultItem(hits[i]) EXCEPT !.summary = SummaryOf(hits[i])]
                  ELSE ResultItem(hits[i])],
          raised |-> FALSE,
          sm |-> sm \/ long # {}]

\* variant: the limit of the query text wins over the explicit argument
ResolveLimit_parsedFirst(limit, parsed) ==
    IF Truthy(parsed.limit) THEN parsed.limit[1]
    ELSE IF Truthy(limit) THEN limit[1]
    ELSE default_limit

\* the limit of AISearchService.search before the cap
ResolveLimit(limit, parsed) ==
    IF Truthy(limit) THEN limit[1]
    ELSE IF Truthy(parsed.limit) THEN parsed.limit[1]
    ELSE default_limit

\* variant: the configured maximum is not applied
CapLimit_uncapped(n) == n

\* result_limit = min(result_limit, max_limit)
CapLimit(n) == Min(n, max_limit)

Raise(exc) ==
    [kind |-> "raise", exc |-> exc, results |-> <<>>, total |-> 0,
     requested |-> None, resolved |-> None, embedded |-> None]

\* variant: a failing index query propagates instead of degrading
AISearchService_search_propagating(idx, query, limit, include_summaries, env, em, sm) ==
    LET parsed == Parsed(query)
        result_limit == CapLimit(ResolveLimit(limit, parsed))
        parsedHits == ParseHits(knn_search(idx, encode(query), result_limit),
                                include_summaries, env, sm)
    IN
    IF ~em /\ ~env.model_ok
    THEN [out |-> Raise("ModelLoadError"), em |-> FALSE, sm |-> sm]
    ELSE IF ~env.index_ok
    THEN [out |-> Raise("TransportError"), em |-> TRUE, sm |-> sm]
    ELSE IF parsedHits.raised
    THEN [out |-> [Raise("SummarizerError") EXCEPT
                      !.requested = Some(result_limit),
                      !.resolved = Some(ResolveLimit(limit, parsed)),
                      !.embedded = Some(query)],
          em |-> TRUE, sm |-> parsedHits.sm]
    ELSE [out |-> [kind |-> "return", exc |-> "",
                   results |-> parsedHits.results,
                   total |-> Len(parsedHits.results),
                   requested |-> Some(result_limit),
                   resolved |-> Some(ResolveLimit(limit, parsed)),
                   embedded |-> Some(query)],
          em |-> TRUE, sm |-> parsedHits.sm]

\* AISearchService.search: the outcome of the call and the models loaded
\* after it.  em, sm: embedding model / summarizer loaded before the call.
AISearchService_search(idx, query, limit, include_summaries, env, em, sm) ==
    LET parsed == Parsed(query)
        result_limit == CapLimit(ResolveLimit(limit, parsed))
        parsedHits == ParseHits(knn_search(idx, encode(query), result_limit),
                                include_summaries, env, sm)
    IN
    IF ~em /\ ~env.model_ok
    THEN [out |-> Raise("ModelLoadError"), em |-> FALSE, sm |-> sm]
    ELSE IF ~env.index_ok
    THEN [out |-> [kind |-> "return", exc |-> "", results |-> <<>>,
                   total |-> 0, requested |-> Some(result_limit),
                   resolved |-> Some(ResolveLimit(limit, parsed)),
                   embedded |-> Some(query)],
          em |-> TRUE, sm |-> sm]
    ELSE IF parsedHits.raised
    THEN [out |-> [Raise("SummarizerError") EXCEPT
                      !.requested = Some(result_limit),
                      !.resolved = Some(ResolveLimit(limit, parsed)),
                      !.embedded = Some(query)],
          em |-> TRUE, sm |-> parsedHits.sm]
    ELSE [out |-> [kind |-> "return", exc |-> "",
                   results |-> parsedHits.results,
                   total |-> Len(parsedHits.results),
                   requested |-> Some(result_limit),
                   resolved |-> Some(ResolveLimit(limit, parsed)),
                   embedded |-> Some(query)],
          em |-> TRUE, sm |-> parsedHits.sm]

\* variant: the loop never stops early
RECURSIVE SimilarLoop_noBreak(_, _, _, _, _)
SimilarLoop_noBreak(hits, i, record_id, limit, similar_records) ==
    IF i > Len(hits) THEN similar_records
    ELSE IF hits[i]._source.id = record_id
    THEN SimilarLoop_noBreak(hits, i + 1, record_id, limit, similar_records)
    ELSE SimilarLoop_noBreak(hits, i + 1, record_id, limit,
                             Append(similar_records, ResultItem(hits[i])))

\* the loop over the hits of AISearchService.similar, from hit i on, with
\* the records collected so far
RECURSIVE SimilarLoop(_, _, _, _, _)
SimilarLoop(hits, i, record_id, limit, similar_records) ==
    IF i > Len(hits) THEN similar_records
    ELSE IF hits[i]._source.id = record_id
    THEN SimilarLoop(hits, i + 1, record_id, limit, similar_records)
    ELSE IF Len(similar_records) + 1 >= limit
    THEN Append(similar_records, ResultItem(hits[i]))
    ELSE SimilarLoop(hits, i + 1, record_id, limit,
                     Append(similar_records, ResultItem(hits[i])))

EmptySimilar ==
    [kind |-> "return", exc |-> "", similar |-> <<>>, total |-> 0,
     requested |-> None, source_title |-> None]

\* AISearchService.similar; env = [fetch_ok, index_ok]: whether the lookup
\* of the source record and the k-NN query succeed
AISearchService_similar(idx, record_id, limit, env) ==
    LET found == term_search(idx, record_id)
        source_embedding == found[1].embedding
        similar_records ==
            SimilarLoop(knn_search(idx, source_embedding[1], limit + 1),
                        1, record_id, limit, <<>>)
    IN
    IF ~env.fetch_ok THEN EmptySimilar
    ELSE IF found = <<>> THEN EmptySimilar
    ELSE IF source_embedding = None THEN EmptySimilar
    ELSE IF ~env.index_ok
    THEN [EmptySimilar EXCEPT !.requested = Some(limit + 1)]
    ELSE [kind |-> "return", exc |-> "",
          similar |-> similar_records,
          total |-> Len(similar_records),
          requested |-> Some(limit + 1),
          source_title |-> IF found[1].title = None THEN Some("Untitled")
                           ELSE found[1].title]

\* SimilarResult.to_dict
SimilarResult_to_dict(record_id, r) ==
    [record_id |-> record_id, similar |-> r.similar, total |-> r.total,
     source_title |-> IF TruthyStr(r.source_title) THEN r.source_title
                      ELSE None]

\* StatusResult.__init__
StatusResult(status, model_loaded, opensearch_version, knn_plugin_available, error) ==
    [status |-> status, model_loaded |-> model_loaded,
     opensearch_version |-> opensearch_version,
     knn_plugin_available |-> knn_plugin_available,
     error |-> error, message |-> error]

\* StatusResult.to_dict: an optional field is present iff it is truthy
StatusResult_to_dict(r) ==
    [status |-> r.status, model_loaded |-> r.model_loaded,
     opensearch_version |->
         IF TruthyStr(r.opensearch_version) THEN r.opensearch_version
         ELSE None,
     knn_plugin_available |->
         IF r.knn_plugin_available THEN Some(TRUE) ELSE None,
     error |-> IF TruthyStr(r.error) THEN r.error ELSE None,
     message |-> IF TruthyStr(r.message) THEN r.message ELSE None]

\* variant: only the info call is inside the try block
AISearchService_status_infoOnly(env) ==
    IF env.info # None
    THEN StatusResult("error", FALSE, None, FALSE, env.info)
    ELSE StatusResult("ready", TRUE, env.version, env.knn_plugin, None)

\* AISearchService.status; env = [info, plugins : Optional str (the message
\* of the exception the probe raises, None when it answers), version,
\* knn_plugin]
AISearchService_status(env) ==
    IF env.info # None
    THEN StatusResult("error", FALSE, None, FALSE, env.info)
    ELSE IF env.plugins # None
    THEN StatusResult("error", FALSE, None, FALSE, env.plugins)
    ELSE StatusResult("ready", TRUE, env.version, env.knn_plugin, None)

(***************************************************************************)
(* SearchService (search_service.py) over the loaded embedding table, a    *)
(* sequence (a dict keeps insertion order) of                              *)
(*   [record_id, embedding : vector, title : str].                         *)
(***************************************************************************)
\* semantic_weight and metadata_weight of SearchService.search, times 10
semantic_weight == 7

metadata_weight == 3

\* the limit SearchService.search falls back to
brute_default_limit == 10

\* the number of search terms that occur in the lowercased title
TermMatches(search_terms, title) ==
    Cardinality({term \in search_terms : Contains(Lower(title), Lower(term))})

\* the scored entry of one table row; hybrid_score is 1000 * n * score with
\* n the number of search terms (1 when there is none)
ScoreRow(row, parsed, query_embedding) ==
    LET n == Max(1, Cardinality(parsed.search_terms))
        semantic_score == cosine_similarity(query_embedding, row.embedding)
        matches == IF parsed.search_terms = {} THEN 0
                   ELSE TermMatches(parsed.search_terms, row.title)
        hybrid_score == semantic_weight * semantic_score * n
                        + metadata_weight * 100 * matches
    IN  [key |-> hybrid_score,
         val |-> [record_id |-> row.record_id,
                  title |-> row.title,
                  semantic_score |-> semantic_score,
                  metadata_matches |-> matches,
                  hybrid_score |-> hybrid_score,
                  summary |-> None]]

ScoreRows(embeddings, parsed, query_embedding) ==
    [i \in 1..Len(embeddings) |->
        ScoreRow(embeddings[i], parsed, query_embedding)]

\* result_limit = limit or parsed['limit'] or 10
BruteLimit(limit, parsed) ==
    IF Truthy(limit) THEN limit[1]
    ELSE IF Truthy(parsed.limit) THEN parsed.limit[1]
    ELSE brute_default_limit

\* the summary loop of SearchService.search: a failure of generate_summary
\* (loading the pipeline, or running it on the record `bad`) leaves that
\* result's summary None
BruteSummaries(results, env, sm) ==
    [i \in 1..Len(results) |->
        IF (~sm /\ ~env.summarizer_ok) \/ env.bad = results[i].record_id
        THEN results[i]
        ELSE [results[i] EXCEPT !.summary =
                 Some(generate_summary("A classic work titled '"
                                       \o results[i].title \o "'"))]]

\* variant: total counts the table, not the returned list
SearchService_search_corpusTotal(embeddings, query, limit, include_summaries, env, em, sm) ==
    LET parsed == Parsed(query)
        query_embedding == encode(parsed.semantic_query)
        sorted == SortDesc(ScoreRows(embeddings, parsed, query_embedding))
        results == Vals(Prefix(sorted, BruteLimit(limit, parsed)))
    IN
    IF embeddings = <<>>
    THEN [out |-> Raise("ValueError"), em |-> em, sm |-> sm]
    ELSE IF ~em /\ ~env.model_ok
    THEN [out |-> Raise("ModelLoadError"), em |-> FALSE, sm |-> sm]
    ELSE [out |-> [kind |-> "return", exc |-> "",
                   results |-> IF include_summaries
                               THEN BruteSummaries(results, env, sm)
                               ELSE results,
                   total |-> Len(embeddings),
                   requested |-> Some(BruteLimit(limit, parsed)),
                   resolved |-> Some(BruteLimit(limit, parsed)),
                   embedded |-> Some(parsed.semantic_query)],
          em |-> TRUE,
          sm |-> sm \/ (include_summaries /\ results # <<>>
                        /\ env.summarizer_ok)]

\* SearchService.search
SearchService_search(embeddings, query, limit, include_summaries, env, em, sm) ==
    LET parsed == Parsed(query)
        query_embedding == encode(parsed.semantic_query)
        sorted == SortDesc(ScoreRows(embeddings, parsed, query_embedding))
        results == Vals(Prefix(sorted, BruteLimit(limit, parsed)))
    IN
    IF embeddings = <<>>
    THEN [out |-> Raise("ValueError"), em |-> em, sm |-> sm]
    ELSE IF ~em /\ ~env.model_ok
    THEN [out |-> Raise("ModelLoadError"), em |-> FALSE, sm |-> sm]
    ELSE [out |-> [kind |-> "return", exc |-> "",
                   results |-> IF include_summaries
                               THEN BruteSummaries(results, env, sm)
                               ELSE results,
                   total |-> Len(results),
                   requested |-> Some(BruteLimit(limit, parsed)),
                   resolved |-> Some(BruteLimit(limit, parsed)),
                   embedded |-> Some(parsed.semantic_query)],
          em |-> TRUE,
          sm |-> sm \/ (include_summaries /\ results # <<>>
                        /\ env.summarizer_ok)]

\* variant: the source record is not skipped
search_by_record_id_keepSource(embeddings, record_id, limit) ==
    LET source == SelectSeq(embeddings, LAMBDA r : r.record_id = record_id)
        others == embeddings
        scored ==
            [j \in 1..Len(others) |->
                LET similarity == cosine_similarity(source[1].embedding,
                                                    others[j].embedding)
                IN  [key |-> similarity,
                     val |-> [record_id |-> others[j].record_id,
                              title |-> others[j].title,
                              similarity |-> similarity]]]
    IN
    IF embeddings = <<>> \/ source = <<>>
    THEN [kind |-> "raise", exc |-> "ValueError", similar |-> <<>>]
    ELSE [kind |-> "return", exc |-> "",
          similar |-> Vals(Prefix(SortDesc(scored), limit))]

\* SearchService.search_by_record_id
search_by_record_id(embeddings, record_id, limit) ==
    LET source == SelectSeq(embeddings, LAMBDA r : r.record_id = record_id)
        others == SelectSeq(embeddings, LAMBDA r : r.record_id # record_id)
        scored ==
            [j \in 1..Len(others) |->
                LET similarity == cosine_similarity(source[1].embedding,
                                                    others[j].embedding)
                IN  [key |-> similarity,
                     val |-> [record_id |-> others[j].record_id,
                              title |-> others[j].title,
                              similarity |-> similarity]]]
    IN
    IF embeddings = <<>> \/ source = <<>>
    THEN [kind |-> "raise", exc |-> "ValueError", similar |-> <<>>]
    ELSE [kind |-> "return", exc |-> "",
          similar |-> Vals(Prefix(SortDesc(scored), limit))]

(***************************************************************************)
(* The HTTP layer: AISearchResource (flask-resources) in front of          *)
(* AISearchService, and the api_views blueprint in front of SearchService. *)
(***************************************************************************)
\* the parameters AISearchService.search accepts
search_parameters == {"identity", "query", "limit", "include_summaries"}

\* the keyword arguments search_get and search_post pass to it
search_call_kwargs ==
    {"identity", "query", "limit", "include_summaries", "include_passages"}

\* query = args.get('q') or args.get('query')
QueryOf(args) ==
    IF TruthyStr(args.q) THEN args.q
    ELSE IF TruthyStr(args.query) THEN args.query
    ELSE None

Response(status, error, message, body) ==
    [status |-> status, error |-> error, message |-> message, body |-> body]

\* the except clauses of the AISearchResource handlers, for an exception of
\* class exc raised in the try block; value_error_status is 503 or 404
ResourceExcept(exc, value_error_status) ==
    IF exc = "ValueError"
    THEN Response(value_error_status, Some(exc), None, None)
    ELSE Response(500, Some("Internal server error"), Some(exc), None)

\* the body of search_get and of search_post once the arguments are loaded
ResourceSearchBody(args) ==
    IF QueryOf(args) = None THEN ResourceExcept("BadRequest", 503)
    ELSE IF ~(search_call_kwargs \subseteq search_parameters)
    THEN ResourceExcept("TypeError", 503)
    ELSE Response(200, None, None, None)

\* SearchRequestSchema.validate_query
validate_query(args) == TruthyStr(args.q) \/ TruthyStr(args.query)

\* AISearchResource.search_post: the schema is loaded inside the try block
search_post(args) ==
    IF ~validate_query(args) THEN ResourceExcept("ValidationError", 503)
    ELSE ResourceSearchBody(args)

\* the except clauses of api_views.search
ApiSearchExcept(exc) ==
    IF exc = "BadRequest" THEN Response(400, Some(exc), None, None)
    ELSE IF exc = "ValueError" THEN Response(500, Some(exc), None, None)
    ELSE Response(500, Some("Internal server error"), None, None)

\* the except clauses of api_views.similar
ApiSimilarExcept(exc) ==
    IF exc = "ValueError" THEN Response(404, Some(exc), None, None)
    ELSE Response(500, Some("Internal server error"), None, None)

NotConfigured ==
    Response(503, Some("AI search not configured"),
             Some("INVENIO_AISEARCH_EMBEDDINGS_FILE not set"), None)

\* variant: a path given always loads the file
get_search_service_reloading(service, file) ==
    IF file = None
    THEN [service |-> service, raised |-> TRUE]
    ELSE [service |-> Some([embeddings |-> file[1]]), raised |-> FALSE]

\* search_service.get_search_service(embeddings_file) for a truthy path:
\* the global service afterwards and whether the call raised.  file is the
\* content of the file (None: it cannot be opened), service the global.
get_search_service(service, file) ==
    IF service = None
    THEN IF file = None
         THEN [service |-> None, raised |-> TRUE]
         ELSE [service |-> Some([embeddings |-> file[1]]), raised |-> FALSE]
    ELSE IF service[1].embeddings = <<>>
    THEN IF file = None
         THEN [service |-> service, raised |-> TRUE]
         ELSE [service |-> Some([embeddings |-> file[1]]), raised |-> FALSE]
    ELSE [service |-> service, raised |-> FALSE]

(***************************************************************************)
(* The state machine.                                                      *)
(***************************************************************************)
VARIABLES
    index,              \* the documents of the k-NN index
    embeddings_file,    \* content of the embeddings file (None: json.load fails)
    configured,         \* INVENIO_AISEARCH_EMBEDDINGS_FILE is set
    _search_service,    \* search_service._search_service
    _embedding_model,   \* ModelManager._embedding_model is loaded
    _summarizer,        \* ModelManager._summarizer is loaded
    last,               \* the call in hand: its arguments and its outcome
    _model_manager,     \* models._model_manager: None or a ModelManager
    managers,           \* the ModelManager objects constructed so far
    load_log,           \* the model loads run so far, in order
    threads,            \* the threads inside the model layer
    regen,              \* the run of tasks.regenerate_all_embeddings
    chunks              \* the run of cli generate-chunk-embeddings

\* the state of the model layer under concurrent callers
model_vars == <<_model_manager, managers, load_log, threads>>

\* the state of the services and of the call in hand
service_vars == <<index, embeddings_file, configured, _search_service,
                  _embedding_model, _summarizer, last>>

\* the state of the batch jobs
task_vars == <<regen, chunks>>

vars == <<service_vars, model_vars, task_vars>>

\* ---- bounds and inputs ----
\* how many more entries than max_limit the large index and table hold
Extra == 1

BigSize == max_limit + Extra

\* number of repetitions that make the long description
LongReps == 84

RECURSIVE Repeat(_, _)
Repeat(s, n) == IF n = 0 THEN "" ELSE s \o Repeat(s, n - 1)

LongText == Repeat("lorem ", LongReps)

SmallIndex ==
    << [id |-> 1, embedding |-> Some(<<1, 0>>),
        title |-> Some("Heroine Adventure"), description |-> None],
       [id |-> 2, embedding |-> Some(<<0, 1>>),
        title |-> Some("War Stories"), description |-> Some("short text")],
       [id |-> 3, embedding |-> Some(<<3, 4>>),
        title |-> None, description |-> Some(LongText)],
       [id |-> 4, embedding |-> None,
        title |-> Some("Unembedded"), description |-> None] >>

\* three records with one embedding: a k-NN answer of two leaves one out
TieIndex ==
    << [id |-> 1, embedding |-> Some(<<1, 0>>),
        title |-> Some("Twin"), description |-> None],
       [id |-> 2, embedding |-> Some(<<1, 0>>),
        title |-> Some("Twin"), description |-> None],
       [id |-> 5, embedding |-> Some(<<1, 0>>),
        title |-> Some("Twin"), description |-> None] >>

BigIndex ==
    SubSeq([i \in 1..BigSize |->
               [id |-> i, embedding |-> Some(<<1, 0>>),
                title |-> Some("t"), description |-> None]], 1, BigSize)

SmallTable ==
    << [record_id |-> 1, embedding |-> <<1, 0>>, title |-> "Heroine Adventure"],
       [record_id |-> 2, embedding |-> <<0, 1>>, title |-> "War Stories"],
       [record_id |-> 3, embedding |-> <<0, 0>>, title |-> "Women at War"],
       [record_id |-> 5, embedding |-> <<1, 0>>, title |-> "Quest"] >>

BigTable ==
    SubSeq([i \in 1..BigSize |->
               [record_id |-> i, embedding |-> <<1, 0>>, title |-> "t"]],
           1, BigSize)

\* the deployments the model starts from
Scenarios ==
    { [index |-> <<>>, file |-> None, configured |-> FALSE],
      [index |-> <<>>, file |-> None, configured |-> TRUE],
      [index |-> SmallIndex, file |-> Some(SmallTable), configured |-> TRUE],
      [index |-> TieIndex, file |-> Some(<<>>), configured |-> TRUE],
      [index |-> BigIndex, file |-> Some(BigTable), configured |-> TRUE] }

ExplicitLimits == {None, Some(0), Some(1), Some(2), Some(500)}

SimilarLimits == {0, 1, 2, 10}

\* 9 is in no index and no table
RecordIds == {1, 4, 5, 9}

HttpArgs ==
    { [q |-> None, query |-> None], [q |-> Some(""), query |-> None],
      [q |-> None, query |-> Some("books")] }
    \cup { [q |-> Some(s), query |-> None] : s \in Queries \ {""} }

\* the faults one call can meet (at most one per call)
NoFault ==
    [name |-> "none", model_ok |-> TRUE, index_ok |-> TRUE, fetch_ok |-> TRUE,
     summarizer_ok |-> TRUE, bad |-> 0, info |-> None, plugins |-> None,
     version |-> Some("2.11.0"), knn_plugin |-> TRUE]

Faults ==
    { NoFault,
      [NoFault EXCEPT !.name = "model", !.model_ok = FALSE],
      [NoFault EXCEPT !.name = "index", !.index_ok = FALSE],
      [NoFault EXCEPT !.name = "fetch", !.fetch_ok = FALSE],
      [NoFault EXCEPT !.name = "summarizer", !.summarizer_ok = FALSE],
      [NoFault EXCEPT !.name = "bad3", !.bad = 3],
      [NoFault EXCEPT !.name = "bad2", !.bad = 2],
      [NoFault EXCEPT !.name = "info", !.info = Some("ConnectionError")],
      [NoFault EXCEPT !.name = "plugins", !.plugins = Some("TransportError")],
      [NoFault EXCEPT !.name = "noknn", !.knn_plugin = FALSE] }

FaultsOf(names) == {e \in Faults : e.name \in names}

Idle ==
    [op |-> "idle", query |-> None, limit |-> None, record_id |-> 0,
     include_summaries |-> FALSE, fault |-> "none",
     svc |-> None, http |-> None]

Threads == {"t1", "t2"}

\* a thread outside the model layer
IdleThread ==
    [pc |-> "idle", kind |-> "embedding", mgr |-> 0, model |-> 0,
     failed |-> FALSE, calls |-> 0]

\* regenerate_all_embeddings before it is started: the records fetched, the
\* position in them, the embeddings built and the two counters
IdleRegen ==
    [pc |-> "idle", pages |-> <<>>, url |-> 0, all_records |-> <<>>,
     next |-> 1, embeddings |-> <<>>, success_count |-> 0, error_count |-> 0,
     written |-> 0, old_file |-> None, result |-> None]

\* the synchronous driver of generate-chunk-embeddings before it is started
IdleChunks ==
    [pc |-> "idle", total_chunks |-> 0, batch_size |-> 0, offset |-> 0,
     total_processed |-> 0, total_indexed |-> 0, total_errors |-> 0,
     call_offset |-> None, prev_next |-> None, result |-> None]

Init ==
    /\ regen = IdleRegen
    /\ chunks = IdleChunks
    /\ _model_manager = None
    /\ managers = <<>>
    /\ load_log = <<>>
    /\ threads = [t \in Threads |-> IdleThread]
    /\ \E sc \in Scenarios :
          /\ index = sc.index
          /\ embeddings_file = sc.file
          /\ configured = sc.configured
    /\ _search_service = None
    /\ _embedding_model = FALSE
    /\ _summarizer = FALSE
    /\ last = Idle

\* ---- AISearchService, called directly ----
ServiceSearch ==
    /\ last.op = "idle"
    /\ UNCHANGED <<model_vars, task_vars>>
    /\ \E query \in Queries, limit \in ExplicitLimits,
          include_summaries \in BOOLEAN,
          env \in FaultsOf({"none", "model", "index", "summarizer", "bad3"}) :
          LET r == AISearchService_search(index, query, limit,
                                          include_summaries, env,
                                          _embedding_model, _summarizer)
          IN  /\ last' = [Idle EXCEPT !.op = "service_search",
                                      !.query = Some(query),
                                      !.limit = limit,
                                      !.include_summaries = include_summaries,
                                      !.fault = env.name,
                                      !.svc = Some(r.out)]
              /\ _embedding_model' = r.em
              /\ _summarizer' = r.sm
    /\ UNCHANGED <<index, embeddings_file, configured, _search_service>>

ServiceSimilar ==
    /\ last.op = "idle"
    /\ UNCHANGED <<model_vars, task_vars>>
    /\ \E record_id \in RecordIds, limit \in SimilarLimits,
          env \in FaultsOf({"none", "fetch", "index"}) :
          last' = [Idle EXCEPT
                      !.op = "service_similar",
                      !.record_id = record_id,
                      !.limit = Some(limit),
                      !.fault = env.name,
                      !.svc = Some(AISearchService_similar(index, record_id,
                                                           limit, env))]
    /\ UNCHANGED <<index, embeddings_file, configured, _search_service,
                   _embedding_model, _summarizer>>

ServiceStatus ==
    /\ last.op = "idle"
    /\ UNCHANGED <<model_vars, task_vars>>
    /\ \E env \in FaultsOf({"none", "info", "plugins", "noknn"}) :
          last' = [Idle EXCEPT
                      !.op = "service_status",
                      !.fault = env.name,
                      !.svc = Some(AISearchService_status(env))]
    /\ UNCHANGED <<index, embeddings_file, configured, _search_service,
                   _embedding_model, _summarizer>>

\* ---- AISearchResource ----
\* what the request parser of flask-resources answers when the schema
\* rejects the arguments before the handler runs (decided outside this
\* repository)
ParserRejectStatus == {400, 500}

\* search_get: @request_search_args loads SearchRequestSchema first
ResourceSearchGet ==
    /\ last.op = "idle"
    /\ UNCHANGED <<model_vars, task_vars>>
    /\ \E args \in HttpArgs :
          \E st \in ParserRejectStatus :
             last' = [Idle EXCEPT
                         !.op = "resource_search_get",
                         !.query = QueryOf(args),
                         !.http = Some(IF ~validate_query(args)
                                       THEN Response(st, Some("ValidationError"),
                                                     None, None)
                                       ELSE ResourceSearchBody(args))]
    /\ UNCHANGED <<index, embeddings_file, configured, _search_service,
                   _embedding_model, _summarizer>>

ResourceSearchPost ==
    /\ last.op = "idle"
    /\ UNCHANGED <<model_vars, task_vars>>
    /\ \E args \in HttpArgs :
          last' = [Idle EXCEPT !.op = "resource_search_post",
                               !.query = QueryOf(args),
                               !.http = Some(search_post(args))]
    /\ UNCHANGED <<index, embeddings_file, configured, _search_service,
                   _embedding_model, _summarizer>>

\* AISearchResource.similar; SimilarRequestSchema admits limits 1..100
ResourceSimilar ==
    /\ last.op = "idle"
    /\ UNCHANGED <<model_vars, task_vars>>
    /\ \E record_id \in RecordIds, limit \in SimilarLimits \ {0},
          env \in FaultsOf({"none", "fetch", "index"}) :
          LET r == AISearchService_similar(index, record_id, limit, env)
          IN  last' = [Idle EXCEPT
                          !.op = "resource_similar",
                          !.record_id = record_id,
                          !.limit = Some(limit),
                          !.fault = env.name,
                          !.svc = Some(r),
                          !.http = Some(
                              IF r.kind = "raise"
                              THEN ResourceExcept(r.exc, 404)
                              ELSE Response(200, None, None,
                                       Some(SimilarResult_to_dict(record_id,
                                                                  r))))]
    /\ UNCHANGED <<index, embeddings_file, configured, _search_service,
                   _embedding_model, _summarizer>>

\* AISearchResource.status
ResourceStatus ==
    /\ last.op = "idle"
    /\ UNCHANGED <<model_vars, task_vars>>
    /\ \E env \in FaultsOf({"none", "info", "plugins", "noknn"}) :
          LET r == AISearchService_status(env)
          IN  last' = [Idle EXCEPT
                          !.op = "resource_status",
                          !.fault = env.name,
                          !.svc = Some(r),
                          !.http = Some(Response(200, None, None,
                                            Some(StatusResult_to_dict(r))))]
    /\ UNCHANGED <<index, embeddings_file, configured, _search_service,
                   _embedding_model, _summarizer>>

\* ---- api_views ----
\* api_views.search, GET or POST
ApiSearch ==
    /\ last.op = "idle"
    /\ UNCHANGED <<model_vars, task_vars>>
    /\ \E method \in {"GET", "POST"}, args \in HttpArgs,
          limit \in ExplicitLimits, include_summaries \in BOOLEAN,
          env \in FaultsOf({"none", "model", "bad2"}) :
          LET g == get_search_service(_search_service, embeddings_file)
              r == SearchService_search(g.service[1].embeddings,
                                        QueryOf(args)[1], limit,
                                        include_summaries, env,
                                        _embedding_model, _summarizer)
              base == [Idle EXCEPT !.op = "api_search",
                                   !.query = QueryOf(args),
                                   !.limit = limit,
                                   !.include_summaries = include_summaries,
                                   !.fault = env.name]
          IN
          IF QueryOf(args) = None
          THEN /\ last' = [base EXCEPT !.http = Some(ApiSearchExcept("BadRequest"))]
               /\ UNCHANGED <<_search_service, _embedding_model, _summarizer>>
          ELSE IF ~configured
          THEN /\ last' = [base EXCEPT !.http = Some(NotConfigured)]
               /\ UNCHANGED <<_search_service, _embedding_model, _summarizer>>
          ELSE IF g.raised
          THEN /\ last' = [base EXCEPT
                              !.http = Some(ApiSearchExcept("FileNotFoundError"))]
               /\ _search_service' = g.service
               /\ UNCHANGED <<_embedding_model, _summarizer>>
          ELSE /\ last' = [base EXCEPT
                              !.svc = Some(r.out),
                              !.http = Some(IF r.out.kind = "raise"
                                            THEN ApiSearchExcept(r.out.exc)
                                            ELSE Response(200, None, None,
                                                          Some(r.out)))]
               /\ _search_service' = g.service
               /\ _embedding_model' = r.em
               /\ _summarizer' = r.sm
    /\ UNCHANGED <<index, embeddings_file, configured>>

\* api_views.similar
ApiSimilar ==
    /\ last.op = "idle"
    /\ UNCHANGED <<model_vars, task_vars>>
    /\ \E record_id \in RecordIds, limit \in SimilarLimits :
          LET g == get_search_service(_search_service, embeddings_file)
              r == search_by_record_id(g.service[1].embeddings, record_id,
                                       limit)
              base == [Idle EXCEPT !.op = "api_similar",
                                   !.record_id = record_id,
                                   !.limit = Some(limit)]
          IN
          IF ~configured
          THEN /\ last' = [base EXCEPT !.http = Some(NotConfigured)]
               /\ UNCHANGED _search_service
          ELSE IF g.raised
          THEN /\ last' = [base EXCEPT
                              !.http = Some(ApiSimilarExcept("FileNotFoundError"))]
               /\ _search_service' = g.service
          ELSE /\ last' = [base EXCEPT
                              !.svc = Some(r),
                              !.http = Some(
                                  IF r.kind = "raise"
                                  THEN ApiSimilarExcept(r.exc)
                                  ELSE Response(200, None, None,
                                           Some([record_id |-> record_id,
                                                 similar |-> r.similar,
                                                 total |-> Len(r.similar)])))]
               /\ _search_service' = g.service
    /\ UNCHANGED <<index, embeddings_file, configured, _embedding_model,
                   _summarizer>>

\* the caller takes the response; the next call can start
Return ==
    /\ last.op # "idle"
    /\ UNCHANGED <<model_vars, task_vars>>
    /\ last' = Idle
    /\ UNCHANGED <<index, embeddings_file, configured, _search_service,
                   _embedding_model, _summarizer>>

Next ==
    \/ ServiceSearch
    \/ ServiceSimilar
    \/ ServiceStatus
    \/ ResourceSearchPost
    \/ ResourceSearchGet
    \/ ResourceSimilar
    \/ ResourceStatus
    \/ ApiSearch
    \/ ApiSimilar
    \/ Return

Spec == Init /\ [][Next]_vars

(***************************************************************************)
(* The model layer (models.py) under concurrent callers.  A thread calls   *)
(* get_model_manager() and then reads the embedding_model or summarizer    *)
(* property of the manager it got; each read or write of shared state is   *)
(* one step.  A manager is [embedding, summarizer : Optional instance];    *)
(* an instance is named by the position of its load in load_log.           *)
(***************************************************************************)
\* calls each thread makes
MaxCalls == 2

ModelKinds == {"embedding", "summarizer"}

\* models.ModelManager.__init__
ModelManager == [embedding |-> None, summarizer |-> None]

\* a caller enters generate_embedding / generate_summary through
\* get_model_manager()
CallModel ==
    \E t \in Threads, kind \in ModelKinds :
        /\ threads[t].pc \in {"idle", "done"}
        /\ threads[t].calls < MaxCalls
        /\ threads' = [threads EXCEPT ![t] =
                          [IdleThread EXCEPT !.pc = "gmm_check",
                                             !.kind = kind,
                                             !.calls = threads[t].calls + 1]]
        /\ UNCHANGED <<_model_manager, managers, load_log, service_vars, task_vars>>

\* get_model_manager: if _model_manager is None
GetModelManagerCheck ==
    \E t \in Threads :
        /\ threads[t].pc = "gmm_check"
        /\ threads' = [threads EXCEPT ![t].pc =
                          IF _model_manager = None THEN "gmm_create"
                          ELSE "gmm_return"]
        /\ UNCHANGED <<_model_manager, managers, load_log, service_vars, task_vars>>

\* get_model_manager: _model_manager = ModelManager(cache_dir=cache_dir)
GetModelManagerCreate ==
    \E t \in Threads :
        /\ threads[t].pc = "gmm_create"
        /\ managers' = Append(managers, ModelManager)
        /\ _model_manager' = Some(Len(managers) + 1)
        /\ threads' = [threads EXCEPT ![t].pc = "gmm_return"]
        /\ UNCHANGED <<load_log, service_vars, task_vars>>

\* get_model_manager: return _model_manager
GetModelManagerReturn ==
    \E t \in Threads :
        /\ threads[t].pc = "gmm_return"
        /\ threads' = [threads EXCEPT ![t].mgr = _model_manager[1],
                                      ![t].pc = "prop_check"]
        /\ UNCHANGED <<_model_manager, managers, load_log, service_vars, task_vars>>

\* embedding_model / summarizer: if self._embedding_model is None
ModelPropertyCheck ==
    \E t \in Threads :
        /\ threads[t].pc = "prop_check"
        /\ threads' = [threads EXCEPT ![t].pc =
                          IF managers[threads[t].mgr][threads[t].kind] = None
                          THEN "load" ELSE "prop_return"]
        /\ UNCHANGED <<_model_manager, managers, load_log, service_vars, task_vars>>

\* embedding_model / summarizer: SentenceTransformer(...) / pipeline(...)
\* runs; it returns a new instance or raises
ModelPropertyLoad ==
    \E t \in Threads, ok \in BOOLEAN :
        /\ threads[t].pc = "load"
        /\ load_log' = Append(load_log, [model |-> threads[t].kind,
                                         ok |-> ok, by |-> t])
        /\ threads' = [threads EXCEPT ![t] =
                          IF ok
                          THEN [threads[t] EXCEPT !.pc = "prop_store",
                                                  !.model = Len(load_log) + 1]
                          ELSE [threads[t] EXCEPT !.pc = "done",
                                                  !.failed = TRUE]]
        /\ UNCHANGED <<_model_manager, managers, service_vars, task_vars>>

\* embedding_model / summarizer: self._embedding_model = <the instance>
ModelPropertyStore ==
    \E t \in Threads :
        /\ threads[t].pc = "prop_store"
        /\ managers' = [managers EXCEPT
                           ![threads[t].mgr][threads[t].kind] =
                               Some(threads[t].model)]
        /\ threads' = [threads EXCEPT ![t].pc = "prop_return"]
        /\ UNCHANGED <<_model_manager, load_log, service_vars, task_vars>>

\* embedding_model / summarizer: return self._embedding_model
ModelPropertyReturn ==
    \E t \in Threads :
        /\ threads[t].pc = "prop_return"
        /\ threads' = [threads EXCEPT
                          ![t].model =
                              managers[threads[t].mgr][threads[t].kind][1],
                          ![t].pc = "done"]
        /\ UNCHANGED <<_model_manager, managers, load_log, service_vars, task_vars>>

\* the process starts with no index, no embeddings file and no call in hand
InitModels ==
    /\ Init
    /\ index = <<>>
    /\ ~configured

NextModels ==
    \/ CallModel
    \/ GetModelManagerCheck
    \/ GetModelManagerCreate
    \/ GetModelManagerReturn
    \/ ModelPropertyCheck
    \/ ModelPropertyLoad
    \/ ModelPropertyStore
    \/ ModelPropertyReturn

SpecModels == InitModels /\ [][NextModels]_vars

(***************************************************************************)
(* QueryParser.parse called on texts put together from phrases.            *)
(***************************************************************************)
\* the longest text, in phrases
MaxPhrases == 2

Phrases ==
    { "How many", "count", "number of", "list all", "Show All", "show me",
      "search for", "3 books", "ten stories", "female protagonists",
      "tragic tragedy", "by a woman", "show 3me", " 12 ", "warfare" }

\* the texts of at most n phrases, joined by single spaces
RECURSIVE PhraseTexts(_)
PhraseTexts(n) ==
    IF n = 0 THEN {""}
    ELSE LET shorter == PhraseTexts(n - 1)
         IN  shorter \cup {IF s = "" THEN p ELSE s \o " " \o p :
                              s \in shorter, p \in Phrases}

\* QueryParser.parse, called by itself
ParseQuery ==
    /\ last.op = "idle"
    /\ UNCHANGED <<model_vars, task_vars>>
    /\ \E query \in PhraseTexts(MaxPhrases) :
          last' = [Idle EXCEPT !.op = "parse",
                               !.query = Some(query),
                               !.svc = Some(parse(query))]
    /\ UNCHANGED <<index, embeddings_file, configured, _search_service,
                   _embedding_model, _summarizer>>

InitParser ==
    /\ Init
    /\ index = <<>>
    /\ ~configured

NextParser ==
    \/ ParseQuery
    \/ Return

SpecParser == InitParser /\ [][NextParser]_vars

(***************************************************************************)
(* cli.explain_similarity_cmd: the pairwise passage comparison.            *)
(***************************************************************************)
\* the most passages of one book
MaxPassages == 2

\* the passage embeddings of the model; <<0, 0>> has norm zero
PassageVectors == { <<0, 0>>, <<3, 4>>, <<4, 3>>, <<-5, 0>> }

\* the passage lists _fetch_all_passages can return, the empty one included
RECURSIVE PassageLists(_)
PassageLists(n) ==
    IF n = 0 THEN {<<>>}
    ELSE LET shorter == PassageLists(n - 1)
         IN  shorter \cup {Append(ps, [embedding |-> v]) :
                              ps \in shorter, v \in PassageVectors}

\* a float that is a number (as 100 * value) or NaN
Float(val) == [nan |-> FALSE, val |-> val]

NaN == [nan |-> TRUE, val |-> 0]

\* np.dot(emb1, emb2) / (np.linalg.norm(emb1) * np.linalg.norm(emb2)):
\* the division is not guarded, and 0.0 / 0.0 is NaN
PairSimilarity(emb1, emb2) ==
    IF Norm(emb1) * Norm(emb2) = 0
    THEN NaN
    ELSE Float((100 * Dot(emb1, emb2)) \div (Norm(emb1) * Norm(emb2)))

\* the two nested loops that fill similar_pairs, book 1 outermost
SimilarPairs(book1_passages, book2_passages) ==
    [k \in 1..(Len(book1_passages) * Len(book2_passages)) |->
        LET p1 == book1_passages[((k - 1) \div Len(book2_passages)) + 1]
            p2 == book2_passages[((k - 1) % Len(book2_passages)) + 1]
        IN  [similarity |-> PairSimilarity(p1.embedding, p2.embedding),
             passage1 |-> p1,
             passage2 |-> p2]]

\* np.max over the similarities: NaN as soon as one of them is NaN
NpMax(similar_pairs) ==
    IF \E k \in 1..Len(similar_pairs) : similar_pairs[k].similarity.nan
    THEN NaN
    ELSE Float(CHOOSE m \in {similar_pairs[k].similarity.val : k \in 1..Len(similar_pairs)} : \A k \in 1..Len(similar_pairs) : similar_pairs[k].similarity.val <= m)

\* np.min over the similarities: NaN as soon as one of them is NaN
NpMin(similar_pairs) ==
    IF \E k \in 1..Len(similar_pairs) : similar_pairs[k].similarity.nan
    THEN NaN
    ELSE Float(CHOOSE m \in {similar_pairs[k].similarity.val : k \in 1..Len(similar_pairs)} : \A k \in 1..Len(similar_pairs) : similar_pairs[k].similarity.val >= m)

\* what explain_similarity_cmd reports
Explained(kind, similar_pairs) ==
    [kind |-> kind,
     similar_pairs |-> similar_pairs,
     max |-> IF similar_pairs = <<>> THEN <<>> ELSE <<NpMax(similar_pairs)>>,
     min |-> IF similar_pairs = <<>> THEN <<>> ELSE <<NpMin(similar_pairs)>>]

\* cli.explain_similarity_cmd, up to the similarities it reports
explain_similarity_cmd(chunks_index_exists, ext_ready, read_ok, book1_passages, book2_passages) ==
    IF ~chunks_index_exists THEN Explained("no_chunks_index", <<>>)
    ELSE IF ~ext_ready THEN Explained("not_initialized", <<>>)
    ELSE IF ~read_ok THEN Explained("error", <<>>)
    ELSE IF book1_passages = <<>> THEN Explained("no_passages_1", <<>>)
    ELSE IF book2_passages = <<>> THEN Explained("no_passages_2", <<>>)
    ELSE Explained("analysis", SimilarPairs(book1_passages, book2_passages))

\* one run of the explain-similarity command
ExplainSimilarity ==
    /\ last.op = "idle"
    /\ UNCHANGED <<model_vars, task_vars>>
    /\ \E chunks_index_exists \in BOOLEAN, ext_ready \in BOOLEAN, read_ok \in BOOLEAN :
        \E book1_passages \in PassageLists(MaxPassages), book2_passages \in PassageLists(MaxPassages) :
            last' = [Idle EXCEPT
                        !.op = "explain_similarity",
                        !.svc = Some(explain_similarity_cmd(
                                    chunks_index_exists, ext_ready, read_ok,
                                    book1_passages, book2_passages))]
    /\ UNCHANGED <<index, embeddings_file, configured, _search_service,
                   _embedding_model, _summarizer>>

InitExplain ==
    /\ Init
    /\ index = <<>>
    /\ ~configured

NextExplain ==
    \/ ExplainSimilarity
    \/ Return

SpecExplain == InitExplain /\ [][NextExplain]_vars

(***************************************************************************)
(* tasks.regenerate_all_embeddings, run in a worker process while the web  *)
(* process answers requests from the same embeddings file.  A record of    *)
(* the records API is [id, title, description : Optional str, embed_ok],   *)
(* embed_ok telling whether generate_embedding succeeds on its text.       *)
(***************************************************************************)
\* the most pages the records API answers with
MaxPages == 2

\* the pages the records API can answer with
PagePool ==
    { <<>>,
      << [id |-> 1, title |-> Some("Heroine Adventure"),
          description |-> Some("A quest"), embed_ok |-> TRUE],
         [id |-> 6, title |-> Some("Tiny"), description |-> None,
          embed_ok |-> TRUE] >>,
      << [id |-> 8, title |-> Some("Unembeddable"),
          description |-> Some("raises"), embed_ok |-> FALSE],
         [id |-> 2, title |-> Some("War Stories"), description |-> None,
          embed_ok |-> TRUE] >>,
      << [id |-> 7, title |-> None, description |-> None,
          embed_ok |-> TRUE] >> }

\* the corpora: at least one page, at most n
RECURSIVE Corpora(_)
Corpora(n) ==
    IF n = 1 THEN {<<page>> : page \in PagePool}
    ELSE LET shorter == Corpora(n - 1)
         IN  shorter \cup {Append(pages, page) :
                              pages \in shorter, page \in PagePool}

\* text = ' '.join(text_parts) for title and description
RecordText(record) ==
    IF record.title = None
    THEN (IF record.description = None THEN "" ELSE record.description[1])
    ELSE IF record.description = None THEN record.title[1]
    ELSE record.title[1] \o " " \o record.description[1]

\* if not text or len(text.strip()) < 10
InsufficientText(text) == text = "" \/ Len(Strip(text)) < 10

\* embeddings[record_id] = {...}: a dict keeps the place of a key it has
DictSet(rows, row) ==
    IF \E i \in 1..Len(rows) : rows[i].record_id = row.record_id
    THEN [i \in 1..Len(rows) |->
             IF rows[i].record_id = row.record_id THEN row ELSE rows[i]]
    ELSE Append(rows, row)

\* the start of the task: the configuration is read; pages is what the
\* records API will answer with
StartRegen(is_configured, file, pages) ==
    IF ~is_configured
    THEN [regen |-> [IdleRegen EXCEPT !.pc = "raised", !.old_file = file],
          file |-> file]
    ELSE [regen |-> [IdleRegen EXCEPT !.pc = "fetching", !.pages = pages,
                                      !.url = 1, !.old_file = file],
          file |-> file]

\* variant: the output file is opened for writing before the records are
\* fetched
FetchPage_fileOpened(r, file, ok) ==
    IF ~ok
    THEN [regen |-> [r EXCEPT !.pc = "raised"], file |-> None]
    ELSE [regen |-> [r EXCEPT
                        !.all_records = r.all_records \o r.pages[r.url],
                        !.url = IF r.url < Len(r.pages) THEN r.url + 1 ELSE 0,
                        !.pc = IF r.url < Len(r.pages) THEN "fetching"
                               ELSE "processing"],
          file |-> None]

\* one round of `while url`: requests.get, raise_for_status, extend
FetchPage(r, file, ok) ==
    IF ~ok
    THEN [regen |-> [r EXCEPT !.pc = "raised"], file |-> file]
    ELSE [regen |-> [r EXCEPT
                        !.all_records = r.all_records \o r.pages[r.url],
                        !.url = IF r.url < Len(r.pages) THEN r.url + 1 ELSE 0,
                        !.pc = IF r.url < Len(r.pages) THEN "fetching"
                               ELSE "processing"],
          file |-> file]

\* variant: a record with insufficient text is skipped without counting
ProcessRecord_uncounted(r) ==
    LET record == r.all_records[r.next]
        text == RecordText(record)
    IN  IF InsufficientText(text)
        THEN [r EXCEPT !.next = r.next + 1]
        ELSE IF ~record.embed_ok
        THEN [r EXCEPT !.error_count = r.error_count + 1,
                       !.next = r.next + 1]
        ELSE [r EXCEPT
                 !.embeddings =
                     DictSet(r.embeddings,
                             [record_id |-> record.id,
                              embedding |-> encode(text),
                              title |-> IF record.title = None THEN "Unknown"
                                        ELSE record.title[1]]),
                 !.success_count = r.success_count + 1,
                 !.next = r.next + 1]

\* one round of `for record in all_records`
ProcessRecord(r) ==
    LET record == r.all_records[r.next]
        text == RecordText(record)
    IN  IF InsufficientText(text)
        THEN [r EXCEPT !.error_count = r.error_count + 1,
                       !.next = r.next + 1]
        ELSE IF ~record.embed_ok
        THEN [r EXCEPT !.error_count = r.error_count + 1,
                       !.next = r.next + 1]
        ELSE [r EXCEPT
                 !.embeddings =
                     DictSet(r.embeddings,
                             [record_id |-> record.id,
                              embedding |-> encode(text),
                              title |-> IF record.title = None THEN "Unknown"
                                        ELSE record.title[1]]),
                 !.success_count = r.success_count + 1,
                 !.next = r.next + 1]

\* os.makedirs and open(embeddings_file, 'w'): the file is truncated
OpenFile(r, file, ok) ==
    IF ~ok
    THEN [regen |-> [r EXCEPT !.pc = "raised"], file |-> file]
    ELSE [regen |-> [r EXCEPT !.pc = "writing"], file |-> None]

\* json.dump into the open file and the end of the with block; a failing
\* write leaves what was written so far
DumpFile(r, file, ok) ==
    IF ~ok
    THEN [regen |-> [r EXCEPT !.pc = "raised"], file |-> None]
    ELSE [regen |-> [r EXCEPT
                        !.pc = "done",
                        !.written = Len(r.embeddings),
                        !.result =
                            Some([total_records |-> Len(r.all_records),
                                  embeddings_generated |-> r.success_count,
                                  errors |-> r.error_count])],
          file |-> Some(r.embeddings)]

\* ---- the steps of the task; a step waits until the web process has
\* ---- handed out the answer in hand
RegenStart ==
    /\ last.op = "idle"
    /\ regen.pc = "idle"
    /\ \E pages \in Corpora(MaxPages) :
          LET s == StartRegen(configured, embeddings_file, pages)
          IN  /\ regen' = s.regen
              /\ embeddings_file' = s.file
    /\ UNCHANGED <<index, configured, _search_service, _embedding_model,
                   _summarizer, last, chunks, model_vars>>

RegenFetch ==
    /\ last.op = "idle"
    /\ regen.pc = "fetching"
    /\ \E ok \in BOOLEAN :
          LET s == FetchPage(regen, embeddings_file, ok)
          IN  /\ regen' = s.regen
              /\ embeddings_file' = s.file
    /\ UNCHANGED <<index, configured, _search_service, _embedding_model,
                   _summarizer, last, chunks, model_vars>>

RegenProcess ==
    /\ last.op = "idle"
    /\ regen.pc = "processing"
    /\ regen.next <= Len(regen.all_records)
    /\ regen' = ProcessRecord(regen)
    /\ UNCHANGED <<index, embeddings_file, configured, _search_service,
                   _embedding_model, _summarizer, last, chunks, model_vars>>

RegenOpen ==
    /\ last.op = "idle"
    /\ regen.pc = "processing"
    /\ regen.next > Len(regen.all_records)
    /\ \E ok \in BOOLEAN :
          LET s == OpenFile(regen, embeddings_file, ok)
          IN  /\ regen' = s.regen
              /\ embeddings_file' = s.file
    /\ UNCHANGED <<index, configured, _search_service, _embedding_model,
                   _summarizer, last, chunks, model_vars>>

RegenDump ==
    /\ last.op = "idle"
    /\ regen.pc = "writing"
    /\ \E ok \in BOOLEAN :
          LET s == DumpFile(regen, embeddings_file, ok)
          IN  /\ regen' = s.regen
              /\ embeddings_file' = s.file
    /\ UNCHANGED <<index, configured, _search_service, _embedding_model,
                   _summarizer, last, chunks, model_vars>>

\* ---- the web process ----
\* a table another embeddings file holds
OtherTable ==
    << [record_id |-> 9, embedding |-> <<0, 1>>, title |-> "Elsewhere"] >>

\* get_search_service() without a path: the service is created empty
get_search_service_no_file(service) ==
    IF service = None
    THEN [service |-> Some([embeddings |-> <<>>]), raised |-> FALSE]
    ELSE [service |-> service, raised |-> FALSE]

\* search_service.get_search_service called directly: without a path, with
\* the configured path, with the path of another file, with a path that
\* cannot be read
GetSearchService ==
    /\ last.op = "idle"
    /\ \E path \in {"", "configured", "other", "missing"} :
          LET file == IF path = "configured" THEN embeddings_file
                      ELSE IF path = "other" THEN Some(OtherTable)
                      ELSE None
              g == IF path = "" THEN get_search_service_no_file(_search_service)
                   ELSE get_search_service(_search_service, file)
          IN  /\ _search_service' = g.service
              /\ last' = [Idle EXCEPT !.op = "get_search_service",
                                      !.query = Some(path),
                                      !.svc = Some(g)]
    /\ UNCHANGED <<index, embeddings_file, configured, _embedding_model,
                   _summarizer, model_vars, task_vars>>

\* the deployment starts with or without a readable embeddings file
InitTasks ==
    /\ regen = IdleRegen
    /\ chunks = IdleChunks
    /\ _model_manager = None
    /\ managers = <<>>
    /\ load_log = <<>>
    /\ threads = [t \in Threads |-> IdleThread]
    /\ index = <<>>
    /\ embeddings_file \in {None, Some(SmallTable)}
    /\ configured \in BOOLEAN
    /\ _search_service = None
    /\ _embedding_model = FALSE
    /\ _summarizer = FALSE
    /\ last = Idle

NextTasks ==
    \/ RegenStart
    \/ RegenFetch
    \/ RegenProcess
    \/ RegenOpen
    \/ RegenDump
    \/ GetSearchService
    \/ ApiSimilar
    \/ Return

SpecTasks == InitTasks /\ [][NextTasks]_vars

(***************************************************************************)
(* cli.generate_chunk_embeddings_cmd: the synchronous driver (cli.py       *)
(* 542-564) over the batch task tasks.generate_chunk_embeddings.  The      *)
(* chunks file has total_chunks lines; a batch is called with an offset    *)
(* into it and returns                                                     *)
(*   [processed, indexed, errors, next_offset : Nat, complete : BOOLEAN].  *)
(***************************************************************************)
MaxChunks == 3

MaxBatch == 2

\* tasks.generate_chunk_embeddings(chunks_file, batch_size, offset): what a
\* batch can return.  It consumes up to batch_size lines from offset on;
\* it reports complete, or a next_offset beyond the offset it was given.
generate_chunk_embeddings(total_chunks, batch_size, offset) ==
    LET returned ==
            { [processed |-> p, indexed |-> p - e, errors |-> e,
               next_offset |-> offset + p, complete |-> c] :
                  p \in 0..Min(batch_size, total_chunks - offset),
                  e \in 0..1, c \in BOOLEAN }
    IN  { r \in returned : /\ r.errors <= r.processed
                           /\ r.complete \/ r.next_offset > offset }

\* variant: the driver goes on after a batch that reports complete
DriverStep_noBreak(c, result) ==
    [c EXCEPT !.call_offset = Some(c.offset),
              !.prev_next = IF c.result = None THEN None
                            ELSE Some(c.result[1].next_offset),
              !.result = Some(result),
              !.total_processed = @ + result.processed,
              !.total_indexed = @ + result.indexed,
              !.total_errors = @ + result.errors,
              !.offset = result.next_offset]

\* one pass of the while body, given what the batch returned
DriverStep(c, result) ==
    LET counted == [c EXCEPT !.call_offset = Some(c.offset),
                             !.prev_next = IF c.result = None THEN None
                                           ELSE Some(c.result[1].next_offset),
                             !.result = Some(result),
                             !.total_processed = @ + result.processed,
                             !.total_indexed = @ + result.indexed,
                             !.total_errors = @ + result.errors]
    IN  IF result.complete
        THEN [counted EXCEPT !.pc = "done"]
        ELSE [counted EXCEPT !.offset = result.next_offset]

\* the command reaches the synchronous branch: offset = 0, totals = 0
ChunksStart ==
    /\ chunks.pc = "idle"
    /\ \E total_chunks \in 0..MaxChunks, batch_size \in 1..MaxBatch :
          chunks' = [IdleChunks EXCEPT !.pc = "loop",
                                       !.total_chunks = total_chunks,
                                       !.batch_size = batch_size]
    /\ UNCHANGED <<service_vars, model_vars, regen>>

\* while offset < total_chunks: one batch call and the statements after it
ChunksBatch ==
    /\ chunks.pc = "loop"
    /\ chunks.offset < chunks.total_chunks
    /\ \E result \in generate_chunk_embeddings(chunks.total_chunks,
                                               chunks.batch_size, chunks.offset) :
          chunks' = DriverStep(chunks, result)
    /\ UNCHANGED <<service_vars, model_vars, regen>>

\* the while condition is false: the summary is printed
ChunksExit ==
    /\ chunks.pc = "loop"
    /\ ~(chunks.offset < chunks.total_chunks)
    /\ chunks' = [chunks EXCEPT !.pc = "done"]
    /\ UNCHANGED <<service_vars, model_vars, regen>>

InitChunks == InitTasks

NextChunks ==
    \/ ChunksStart
    \/ ChunksBatch
    \/ ChunksExit

\* the command is one sequential thread of control: a step that is
\* possible is taken
SpecChunks == InitChunks /\ [][NextChunks]_vars /\ WF_vars(NextChunks)

(***************************************************************************)
(* EmbeddingDumperExt.dump (records/dumpers/embedding.py).  The search     *)
(* document is data = [metadata : Optional [title, description :           *)
(* Optional str], aisearch : Optional [embedding]]; None is an absent key. *)
(* ext is the state of current_app.extensions: "none" (no extension),      *)
(* "no_manager" (its model_manager is falsy) or "ready".                   *)
(***************************************************************************)
ExtStates == {"none", "no_manager", "ready"}

DumperTitles == {None, Some(""), Some("A Title")}

DumperDescriptions == {None, Some(""), Some("About things")}

\* the documents handed to dump
DumperData ==
    {[metadata |-> None, aisearch |-> None]} \cup
    { [metadata |-> Some([title |-> t, description |-> d]), aisearch |-> None] :
          t \in DumperTitles, d \in DumperDescriptions }

\* dict.get(key, ""): the default only for an absent key
GetStr(o) == IF o = None THEN "" ELSE o[1]

\* text = title; if description: text = f"{title}. {description}"
DumperText(data) ==
    LET title == IF data.metadata = None THEN ""
                 ELSE GetStr(data.metadata[1].title)
        description == IF data.metadata = None THEN ""
                       ELSE GetStr(data.metadata[1].description)
    IN  IF description # "" THEN title \o ". " \o description ELSE title

\* variant: drafts are not skipped
dump_draftsToo(is_draft, ext, model_ok, data) ==
    IF ext # "ready"
    THEN [data |-> data, raised |-> FALSE, logged |-> "warning"]
    ELSE IF DumperText(data) = ""
    THEN [data |-> data, raised |-> FALSE, logged |-> "warning"]
    ELSE IF ~model_ok
    THEN [data |-> data, raised |-> FALSE, logged |-> "error"]
    ELSE [data |-> [data EXCEPT !.aisearch =
                        Some([embedding |-> encode(DumperText(data))])],
          raised |-> FALSE, logged |-> "none"]

\* EmbeddingDumperExt.dump(record, data); model_ok: generate_embedding
\* returns
dump(is_draft, ext, model_ok, data) ==
    IF is_draft
    THEN [data |-> data, raised |-> FALSE, logged |-> "none"]
    ELSE IF ext # "ready"
    THEN [data |-> data, raised |-> FALSE, logged |-> "warning"]
    ELSE IF DumperText(data) = ""
    THEN [data |-> data, raised |-> FALSE, logged |-> "warning"]
    ELSE IF ~model_ok
    THEN [data |-> data, raised |-> FALSE, logged |-> "error"]
    ELSE [data |-> [data EXCEPT !.aisearch =
                        Some([embedding |-> encode(DumperText(data))])],
          raised |-> FALSE, logged |-> "none"]

\* a record is dumped for indexing
Dump ==
    /\ last.op = "idle"
    /\ \E is_draft \in BOOLEAN, ext \in ExtStates, model_ok \in BOOLEAN,
          data \in DumperData :
          last' = [Idle EXCEPT !.op = "dump",
                      !.svc = Some([is_draft |-> is_draft, ext |-> ext,
                                    model_ok |-> model_ok, before |-> data,
                                    out |-> dump(is_draft, ext, model_ok, data)])]
    /\ UNCHANGED <<index, embeddings_file, configured, _search_service,
                   _embedding_model, _summarizer, model_vars, task_vars>>

InitDumper == InitTasks

NextDumper ==
    \/ Dump
    \/ Return

SpecDumper == InitDumper /\ [][NextDumper]_vars

(***************************************************************************)
(* Properties.                                                             *)
(***************************************************************************)
\* C1: for every query and every explicit limit L >= 1, a search that
\* returns has at most L results, over the k-NN index (AISearchService)
\* and over the embedding table (SearchService).
C1_SearchRespectsExplicitLimit ==
    (/\ last.op \in {"service_search", "api_search"}
     /\ last.svc # None
     /\ last.limit # None
     /\ last.limit[1] >= 1
     /\ last.svc[1].kind = "return")
    => Len(last.svc[1].results) <= last.limit[1]

C1_Witness ==
    /\ last.op = "service_search"
    /\ last.limit = Some(2)
    /\ last.svc # None
    /\ Len(index) > 2
    /\ Len(last.svc[1].results) = 2

\* C2: no search returns more than max_limit results, whatever the source
\* of its limit (explicit argument, number in the query text, default).
C2_NeverMoreThanMaxLimit ==
    (/\ last.op \in {"service_search", "api_search"}
     /\ last.svc # None
     /\ last.svc[1].kind = "return")
    => Len(last.svc[1].results) <= max_limit

\* C3 as stated: before the cap the limit is the explicit argument when
\* one is given, else the limit of the query text when it has one, else
\* the default.
C3_ExplicitThenParsedThenDefault ==
    (/\ last.op \in {"service_search", "api_search"}
     /\ last.svc # None
     /\ last.svc[1].resolved # None)
    => last.svc[1].resolved[1] =
          IF last.limit # None THEN last.limit[1]
          ELSE IF Parsed(last.query[1]).limit # None
          THEN Parsed(last.query[1]).limit[1]
          ELSE default_limit

\* C3 amended: the same order, where an explicit or parsed limit of 0
\* counts as not given.
C3_ResolutionOrderZeroAbsent ==
    (/\ last.op \in {"service_search", "api_search"}
     /\ last.svc # None
     /\ last.svc[1].resolved # None)
    => LET explicit == last.limit
           embedded == Parsed(last.query[1]).limit
       IN  last.svc[1].resolved[1] =
              IF explicit # None /\ explicit[1] # 0 THEN explicit[1]
              ELSE IF embedded # None /\ embedded[1] # 0 THEN embedded[1]
              ELSE default_limit

C3_Witness ==
    /\ last.op = "service_search"
    /\ last.limit = Some(0)
    /\ last.query = Some("3 novels")
    /\ last.svc # None
    /\ last.svc[1].resolved = Some(3)

\* C4: the list similar returns never holds an entry whose record_id is
\* the record asked about (AISearchService.similar and
\* SearchService.search_by_record_id).
C4_SimilarExcludesSource ==
    (/\ last.op \in {"service_similar", "resource_similar", "api_similar"}
     /\ last.svc # None)
    => \A i \in 1..Len(last.svc[1].similar) :
          last.svc[1].similar[i].record_id # last.record_id

C4_Witness ==
    /\ last.op = "api_similar"
    /\ last.record_id = 1
    /\ last.svc # None
    /\ last.svc[1].kind = "return"
    /\ Len(last.svc[1].similar) >= 2

\* C5 as stated: similar asks the index for limit + 1 neighbours and
\* returns at most limit entries, for every limit.
C5_SimilarAtMostLimit ==
    /\ (/\ last.op \in {"service_similar", "resource_similar", "api_similar"}
        /\ last.svc # None)
       => Len(last.svc[1].similar) <= last.limit[1]
    /\ (/\ last.op \in {"service_similar", "resource_similar"}
        /\ last.svc # None
        /\ last.svc[1].requested # None)
       => last.svc[1].requested[1] = last.limit[1] + 1

\* C5 amended: the same for every limit >= 1.
C5_SimilarAtMostPositiveLimit ==
    /\ (/\ last.op \in {"service_similar", "resource_similar", "api_similar"}
        /\ last.svc # None
        /\ last.limit[1] >= 1)
       => Len(last.svc[1].similar) <= last.limit[1]
    /\ (/\ last.op \in {"service_similar", "resource_similar"}
        /\ last.svc # None
        /\ last.svc[1].requested # None)
       => last.svc[1].requested[1] = last.limit[1] + 1

C5_Witness ==
    /\ last.op = "service_similar"
    /\ index = TieIndex
    /\ last.record_id = 1
    /\ last.limit = Some(1)
    /\ last.svc # None
    /\ last.svc[1].requested = Some(2)
    /\ Len(last.svc[1].similar) = 1

\* C6: a similar request for a record that is not in the index, or that
\* has no stored embedding, is answered with HTTP 404.
C6_MissingRecordIs404 ==
    /\ (/\ last.op = "resource_similar"
        /\ last.fault = "none"
        /\ ~\E i \in 1..Len(index) :
               index[i].id = last.record_id /\ index[i].embedding # None)
       => last.http[1].status = 404
    /\ (/\ last.op = "api_similar"
        /\ last.svc # None
        /\ last.svc[1].kind = "raise")
       => last.http[1].status = 404

C8_TotalIsReturnedCount ==
    /\ (/\ last.op \in {"service_search", "api_search"}
        /\ last.svc # None
        /\ last.svc[1].kind = "return")
       => last.svc[1].total = Len(last.svc[1].results)
    /\ (/\ last.op \in {"service_similar", "resource_similar"}
        /\ last.svc # None)
       => last.svc[1].total = Len(last.svc[1].similar)
    /\ (/\ last.op \in {"resource_similar", "api_similar"}
        /\ last.http # None
        /\ last.http[1].body # None)
       => last.http[1].body[1].total = Len(last.http[1].body[1].similar)

C8_Witness ==
    /\ last.op = "api_search"
    /\ last.limit = Some(2)
    /\ last.svc # None
    /\ last.svc[1].kind = "return"
    /\ Len(_search_service[1].embeddings) > 2
    /\ last.svc[1].total = 2

\* C9: status never raises; a failure of the info call or of the plugin
\* listing gives status "error" with the failure in the error field of the
\* serialized form, and a successful probe gives status "ready".
C9_StatusNeverThrows ==
    last.op \in {"service_status", "resource_status"}
    => /\ last.svc # None
       /\ last.fault = "info"
          => /\ last.svc[1].status = "error"
             /\ StatusResult_to_dict(last.svc[1]).error = Some("ConnectionError")
       /\ last.fault = "plugins"
          => /\ last.svc[1].status = "error"
             /\ StatusResult_to_dict(last.svc[1]).error = Some("TransportError")
       /\ last.fault \notin {"info", "plugins"}
          => last.svc[1].status = "ready"
       /\ last.op = "resource_status"
          => /\ last.http[1].status = 200
             /\ last.http[1].body = Some(StatusResult_to_dict(last.svc[1]))

C9_Witness ==
    /\ last.op = "resource_status"
    /\ last.fault = "plugins"
    /\ last.http # None
    /\ last.http[1].body[1].status = "error"
    /\ last.http[1].body[1].error = Some("TransportError")

\* C10: a search request with neither q nor query is answered with HTTP
\* 400 and an error field, by the GET and by the POST handler.
C10_MissingQueryIs400 ==
    (/\ last.op \in {"resource_search_get", "resource_search_post",
                     "api_search"}
     /\ last.query = None)
    => /\ last.http[1].status = 400
       /\ last.http[1].error # None

\* C11: a search request through AISearchResource with a non-empty q is
\* answered with HTTP 200, and the keyword arguments the resource passes
\* are parameters of AISearchService.search.
C11_ResourceSearchAnswers200 ==
    (/\ last.op \in {"resource_search_get", "resource_search_post"}
     /\ last.query # None)
    => /\ last.http[1].status = 200
       /\ search_call_kwargs \subseteq search_parameters

\* C12: a failure of the summarizer for one result does not abort the
\* search: the search returns, the result whose summarization failed has
\* no summary and every other result has one.
C12_SummaryFailureIsolated ==
    (/\ last.op \in {"service_search", "api_search"}
     /\ last.svc # None
     /\ last.include_summaries
     /\ last.fault \in {"summarizer", "bad3", "bad2"})
    => /\ last.svc[1].kind = "return"
       /\ last.fault = "bad2"
          => \A i \in 1..Len(last.svc[1].results) :
                (last.svc[1].results[i].summary = None)
                <=> (last.svc[1].results[i].record_id = 2)

\* C13: under every interleaving of concurrent first calls, one
\* ModelManager is constructed, each model is loaded successfully at most
\* once, and all callers that got a model of one kind got the same
\* instance from the same manager.
C13_SingleInitialization ==
    /\ Len(managers) <= 1
    /\ \A kind \in ModelKinds :
          Cardinality({i \in 1..Len(load_log) :
                          load_log[i].model = kind /\ load_log[i].ok}) <= 1
    /\ \A t, u \in Threads :
          (/\ threads[t].pc = "done" /\ ~threads[t].failed
           /\ threads[u].pc = "done" /\ ~threads[u].failed
           /\ threads[t].kind = threads[u].kind)
          => /\ threads[t].model = threads[u].model
             /\ threads[t].mgr = threads[u].mgr

\* C14: once a load of a model has failed, no later call attempts to load
\* that model again, and every later call for that model fails.
C14_LoadFailureIsPermanent ==
    /\ \A i, j \in 1..Len(load_log) :
          (i < j /\ load_log[i].model = load_log[j].model)
          => load_log[i].ok
    /\ \A t \in Threads :
          (/\ threads[t].pc = "done"
           /\ \E i \in 1..Len(load_log) :
                 /\ load_log[i].model = threads[t].kind
                 /\ ~load_log[i].ok
                 /\ load_log[i].by # t)
          => threads[t].failed

C16_ScoreOrder ==
    /\ (/\ last.op = "api_search"
        /\ last.svc # None
        /\ last.svc[1].kind = "return")
       => LET results == last.svc[1].results
              table == _search_service[1].embeddings
              parsed == Parsed(last.query[1])
              kept == {results[i].record_id : i \in 1..Len(results)}
          IN  /\ \A i \in 1..(Len(results) - 1) :
                    results[i].hybrid_score >= results[i + 1].hybrid_score
              /\ \A a \in 1..Len(table) :
                    (table[a].record_id \notin kept /\ results # <<>>)
                    => ScoreRow(table[a], parsed,
                                encode(parsed.semantic_query)).key
                       <= results[Len(results)].hybrid_score
    /\ (/\ last.op = "service_search"
        /\ last.svc[1].kind = "return"
        /\ last.fault # "index")
       => LET results == last.svc[1].results
              hits == knn_search(index, encode(last.query[1]),
                                 last.svc[1].requested[1])
          IN  /\ Len(results) = Len(hits)
              /\ \A i \in 1..Len(results) :
                    /\ results[i].record_id = hits[i]._source.id
                    /\ results[i].similarity_score = hits[i]._score
              /\ \A i \in 1..(Len(results) - 1) :
                    results[i].similarity_score
                    >= results[i + 1].similarity_score

C16_Witness ==
    /\ last.op = "api_search"
    /\ last.limit = Some(2)
    /\ last.svc # None
    /\ last.svc[1].kind = "return"
    /\ Len(_search_service[1].embeddings) = 4
    /\ Len(last.svc[1].results) = 2
    /\ last.svc[1].results[1].record_id = 2
    /\ last.svc[1].results[1].hybrid_score > last.svc[1].results[2].hybrid_score

\* C17: intent detection follows a fixed priority.  A query whose lowercased
\* text contains "how many", "count" or "number of" gets intent count, also
\* when it contains "list all" or "show all"; otherwise one that contains
\* "list all" or "show all" gets list; every other query, the empty one
\* included, gets search.
C17_IntentPriority ==
    last.op = "parse" =>
        LET text == Lower(last.query[1])
            counts == \E w \in {"how many", "count", "number of"} :
                          Contains(text, w)
            lists == \E w \in {"list all", "show all"} : Contains(text, w)
            intent == last.svc[1].intent
        IN  /\ counts => intent = "count"
            /\ (~counts /\ lists) => intent = "list"
            /\ (~counts /\ ~lists) => intent = "search"
            /\ last.query[1] = "" => intent = "search"

\* a query with a count phrase and a list phrase was parsed as count
C17_Witness ==
    /\ last.op = "parse"
    /\ Contains(Lower(last.query[1]), "how many")
    /\ Contains(Lower(last.query[1]), "show all")
    /\ last.svc[1].intent = "count"

\* C18: for every query, search_terms is a subset of the union of all
\* attribute-to-term mappings, and attributes holds exactly the categories
\* with at least one pattern matching the lowercased query, each at most
\* once and in the order of the category table.
C18_AttributesExact ==
    last.op = "parse" =>
        LET text == Strip(Lower(last.query[1]))
            attributes == last.svc[1].attributes
            Position(name) ==
                CHOOSE k \in 1..Len(ATTRIBUTE_PATTERNS) :
                    ATTRIBUTE_PATTERNS[k].name = name
        IN  /\ last.svc[1].search_terms \subseteq
                   UNION {ATTRIBUTE_PATTERNS[k].terms :
                             k \in 1..Len(ATTRIBUTE_PATTERNS)}
            /\ \A k \in 1..Len(ATTRIBUTE_PATTERNS) :
                   (\E i \in 1..Len(attributes) :
                        attributes[i] = ATTRIBUTE_PATTERNS[k].name)
                   <=> (\E pat \in ATTRIBUTE_PATTERNS[k].patterns :
                            Contains(text, pat))
            /\ \A i \in 1..Len(attributes) :
                   \E k \in 1..Len(ATTRIBUTE_PATTERNS) :
                       attributes[i] = ATTRIBUTE_PATTERNS[k].name
            /\ \A i, j \in 1..Len(attributes) :
                   i < j => Position(attributes[i]) < Position(attributes[j])

\* a query matching two patterns of one category and a second category:
\* each category is reported once, in table order
C18_Witness ==
    /\ last.op = "parse"
    /\ Contains(Lower(last.query[1]), "tragic tragedy")
    /\ Contains(Lower(last.query[1]), "by a woman")
    /\ last.svc[1].attributes = <<"author_gender_female", "genre_tragedy">>
    /\ last.svc[1].search_terms = {"women", "female", "tragedy", "tragic"}

\* a digit occurs in s
HasDigit(s) == \E i \in 1..Len(s) : CharAt(s, i) \in Digits

\* s has no leading and no trailing whitespace
IsTrimmed(s) ==
    s = "" \/ (CharAt(s, 1) \notin Whitespace /\ CharAt(s, Len(s)) \notin Whitespace)

\* one of the command phrases occurs in s
HasCommandPhrase(s) ==
    \E k \in 1..Len(command_words) : Contains(s, command_words[k])

C20_ZeroNormGivesZero ==
    /\ \A vec1, vec2 \in PassageVectors :
           (Norm(vec1) = 0 \/ Norm(vec2) = 0) => cosine_similarity(vec1, vec2) = 0
    /\ last.op = "explain_similarity" =>
           \A k \in 1..Len(last.svc[1].similar_pairs) :
               LET pair == last.svc[1].similar_pairs[k]
               IN  (Norm(pair.passage1.embedding) = 0 \/ Norm(pair.passage2.embedding) = 0)
                       => pair.similarity = Float(0)

\* C28: in AISearchService.search the limit sent to the index (size and k)
\* lies in 1..max_limit for every query text and every explicit limit that
\* is absent or a non-negative integer; a zero limit, explicit or parsed
\* from the text ("0 books"), counts as absent and the next source decides.
C28_EffectiveLimitInRange ==
    (last.op = "service_search" /\ last.svc[1].requested # None) =>
        LET requested == last.svc[1].requested[1]
            parsed_limit == parse(last.query[1]).limit
        IN  /\ requested \in 1..max_limit
            /\ (last.limit \in {None, Some(0)} /\ parsed_limit \in {None, Some(0)})
                   => requested = default_limit
            /\ (last.limit \in {None, Some(0)} /\ parsed_limit \notin {None, Some(0)})
                   => requested = Min(parsed_limit[1], max_limit)
            /\ last.limit \notin {None, Some(0)}
                   => requested = Min(last.limit[1], max_limit)

\* an explicit zero and a parsed zero both fell through to the default
C28_Witness ==
    /\ last.op = "service_search"
    /\ last.query = Some("0 books")
    /\ last.limit = Some(0)
    /\ last.svc[1].requested = Some(default_limit)

\* the description of a hit is longer than the threshold
LongDescription(hit) ==
    hit._source.description # None /\ Len(hit._source.description[1]) > 500

\* the summaries of a returned k-NN search follow the rule; result i is
\* built from hit i of the index's answer
C24_SummariesOfResults ==
    (/\ last.op = "service_search"
     /\ last.svc[1].kind = "return"
     /\ last.svc[1].results # <<>>) =>
        LET results == last.svc[1].results
            hits == knn_search(index, encode(last.query[1]),
                               last.svc[1].requested[1])
        IN  \A i \in 1..Len(results) :
                /\ results[i].record_id = hits[i]._source.id
                /\ IF ~last.include_summaries THEN results[i].summary = None
                   ELSE IF hits[i]._source.description \in {None, Some("")}
                   THEN results[i].summary = Some(results[i].title)
                   ELSE IF LongDescription(hits[i])
                   THEN results[i].summary
                            = Some(generate_summary(hits[i]._source.description[1]))
                   ELSE results[i].summary = hits[i]._source.description

\* a k-NN search that asks for no summaries, or whose hits have no long
\* description, never fails in the summarizer; one that called it and
\* returned leaves the pipeline loaded
C24_SummarizerOutcome ==
    (/\ last.op = "service_search"
     /\ last.svc[1].requested # None
     /\ last.fault # "index") =>
        LET hits == knn_search(index, encode(last.query[1]),
                               last.svc[1].requested[1])
            called == /\ last.include_summaries
                      /\ \E i \in 1..Len(hits) : LongDescription(hits[i])
        IN  IF called
            THEN last.svc[1].kind = "return" => _summarizer
            ELSE last.svc[1].kind = "return"

\* a k-NN search loads the summarization pipeline only when summaries are
\* requested and a hit has a long description
C24_SummarizerUse ==
    (last'.op = "service_search" /\ _summarizer' # _summarizer) =>
        /\ last'.include_summaries
        /\ \E d \in {index[i] : i \in 1..Len(index)} :
               d.description # None /\ Len(d.description[1]) > 500

\* C24: when summaries are requested, each result's summary follows one
\* rule: the summarizer is called iff the record has a description longer
\* than 500 characters; a shorter description is used verbatim; a record
\* without description gets its title; when summaries are not requested no
\* result has a summary and the summarizer is never called.
C24_SummaryRule ==
    /\ [](C24_SummariesOfResults /\ C24_SummarizerOutcome)
    /\ [][C24_SummarizerUse]_vars

\* a search with summaries returned a title, a verbatim description and a
\* generated summary
C24_Witness ==
    /\ last.op = "service_search"
    /\ last.include_summaries
    /\ last.svc[1].kind = "return"
    /\ \E i, j, k \in 1..Len(last.svc[1].results) :
          /\ last.svc[1].results[i].summary = Some("Heroine Adventure")
          /\ last.svc[1].results[j].summary = Some("short text")
          /\ last.svc[1].results[k].summary = Some(generate_summary(LongText))
          /\ last.svc[1].results[k].title = "Untitled"

\* C25: the text given to the embedding model for a search is the parsed
\* semantic_query, not the raw query, in the k-NN service and in the
\* brute-force service.
C25_EmbedsSemanticQuery ==
    (/\ last.op \in {"service_search", "api_search"}
     /\ last.svc # None
     /\ last.svc[1].embedded # None)
        => last.svc[1].embedded[1] = parse(last.query[1]).semantic_query

\* C23: an unexpected internal failure is answered with an opaque message:
\* the body of a 500 answer does not depend on the exception (its text is
\* what Response carries in error or message), so every 500 answer has the
\* same body.
C23_OpaqueInternalError ==
    (last.http # None /\ last.http[1].status = 500)
        => last.http[1] = Response(500, Some("Internal server error"), None, None)

\* C21: regenerating the embedding table replaces the file wholesale: a
\* reader that loads the table while regenerate_all_embeddings is writing
\* gets a whole table, never a partly written one.
C21_ReaderNeverSeesPartialTable ==
    (/\ regen.pc = "writing"
     /\ regen.old_file = Some(SmallTable)
     /\ last.op = "get_search_service"
     /\ last.query = Some("configured"))
        => /\ ~last.svc[1].raised
           /\ last.svc[1].service[1].embeddings
                  \in {SmallTable, regen.embeddings}

\* C26: in regenerate_all_embeddings a record with insufficient text, or one
\* whose embedding raises, is counted as an error and the batch goes on:
\* every fetched record is counted exactly once, and on completion
\* embeddings_generated + errors = total_records.
C26_EveryRecordCountedOnce ==
    /\ regen.pc \in {"processing", "writing", "done"}
           => regen.success_count + regen.error_count = regen.next - 1
    /\ regen.pc \in {"writing", "done"}
           => regen.next - 1 = Len(regen.all_records)
    /\ (regen.pc = "raised" /\ regen.url = 0)
           => regen.next - 1 = Len(regen.all_records)
    /\ regen.pc = "done" =>
           LET result == regen.result[1]
           IN  /\ result.total_records = Len(regen.all_records)
               /\ result.embeddings_generated + result.errors
                      = result.total_records
               /\ result.embeddings_generated
                      = Cardinality({i \in 1..Len(regen.all_records) :
                            /\ regen.all_records[i].embed_ok
                            /\ ~InsufficientText(RecordText(regen.all_records[i]))})

\* a run over four records, one with too little text and one whose
\* embedding raised, completed
C26_Witness ==
    /\ regen.pc = "done"
    /\ regen.result = Some([total_records |-> 4, embeddings_generated |-> 2,
                            errors |-> 2])
    /\ \E i \in 1..4 : ~regen.all_records[i].embed_ok
    /\ \E i \in 1..4 : RecordText(regen.all_records[i]) = "Tiny"

\* C29: regenerate_all_embeddings writes the embeddings file only after
\* every page has been fetched and every record processed; when the path
\* is not configured or a fetch fails the task raises and the file is what
\* it was.
C29_FileWrittenLast ==
    /\ regen.pc \in {"fetching", "processing"}
           => embeddings_file = regen.old_file
    /\ (regen.pc = "raised" /\ (~configured \/ regen.url # 0))
           => embeddings_file = regen.old_file
    /\ (regen.pc # "idle" /\ embeddings_file # regen.old_file)
           => /\ regen.pc \in {"writing", "done", "raised"}
              /\ regen.url = 0
              /\ regen.next = Len(regen.all_records) + 1
              /\ \A p \in 1..Len(regen.pages) : \A j \in 1..Len(regen.pages[p]) :
                     \E i \in 1..Len(regen.all_records) :
                         regen.all_records[i] = regen.pages[p][j]

\* the fetch of the second page failed; the first page was fetched, the
\* task raised and the file still holds the old table
C29_Witness ==
    /\ regen.pc = "raised"
    /\ regen.url = 2
    /\ regen.all_records # <<>>
    /\ regen.old_file = Some(SmallTable)
    /\ embeddings_file = Some(SmallTable)

\* a call that returns hands out the process-wide service
C30_ReturnsGlobalService ==
    (last.op = "get_search_service" /\ ~last.svc[1].raised)
        => /\ _search_service # None
           /\ last.svc[1].service = _search_service

\* the global is never reset, and a service with a non-empty table is
\* never replaced or reloaded
C30_TableKept ==
    /\ _search_service # None => _search_service' # None
    /\ (_search_service # None /\ _search_service[1].embeddings # <<>>)
           => _search_service' = _search_service

\* C30: get_search_service returns the same process-wide SearchService on
\* every call, and once its table is non-empty no later call reloads or
\* replaces it, whatever embeddings_file is passed; a search or similar
\* call never modifies the table.
C30_ServiceTableFrozen == [](C30_ReturnsGlobalService) /\ [][C30_TableKept]_vars

\* the file was regenerated and a call with the configured path still
\* returned the service with the table loaded first
C30_Witness ==
    /\ last.op = "get_search_service"
    /\ last.query = Some("configured")
    /\ regen.pc = "done"
    /\ embeddings_file # Some(SmallTable)
    /\ embeddings_file # None
    /\ last.svc[1].service = Some([embeddings |-> SmallTable])

\* the driver's calls: the first at offset 0, each later one at the
\* next_offset of the call before, none at or beyond total_chunks, and
\* none after a batch that reported complete
C22_CallsByPosition ==
    /\ chunks.result # None =>
           /\ chunks.call_offset # None
           /\ chunks.call_offset[1] < chunks.total_chunks
           /\ chunks.prev_next = None => chunks.call_offset = Some(0)
           /\ chunks.prev_next # None => chunks.call_offset = chunks.prev_next
    /\ (chunks.pc = "loop" /\ chunks.result # None) =>
           /\ ~chunks.result[1].complete
           /\ chunks.offset = chunks.result[1].next_offset
    /\ (chunks.pc = "loop" /\ chunks.result = None) => chunks.offset = 0
    /\ chunks.pc = "done" =>
           \/ chunks.result # None /\ chunks.result[1].complete
           \/ chunks.offset >= chunks.total_chunks

\* no batch is called once a batch has reported complete
C22_NoCallAfterComplete ==
    (chunks.result # None /\ chunks.result[1].complete)
        => chunks'.result = chunks.result

\* C22: the synchronous chunk-embedding driver starts at offset 0, calls
\* each batch with the next_offset the previous batch returned, stops as
\* soon as a batch reports complete or the offset reaches total_chunks, and
\* terminates, every batch reporting complete or returning a next_offset
\* greater than the offset it was given.
C22_DriverRestartableAndTerminates ==
    /\ [](C22_CallsByPosition)
    /\ [][C22_NoCallAfterComplete]_vars
    /\ (chunks.pc = "loop") ~> (chunks.pc = "done")

\* three batches at offsets 0, 1, 2 over three chunks; the last reported
\* complete and the driver stopped
C22_Witness ==
    /\ chunks.pc = "done"
    /\ chunks.total_chunks = 3
    /\ chunks.call_offset = Some(2)
    /\ chunks.prev_next = Some(2)
    /\ chunks.result[1].complete
    /\ chunks.total_processed = 3

\* C27: EmbeddingDumperExt.dump never lets an exception escape and never
\* touches a draft: it adds aisearch.embedding to the document iff the
\* record is not a draft, the extension's model manager is available, the
\* title/description text is non-empty and the embedding is generated; in
\* every other case the document is left as it was.
C27_DumperAddsEmbeddingIff ==
    last.op = "dump" =>
        LET call == last.svc[1]
            metadata == call.before.metadata
            has_text == /\ metadata # None
                        /\ \/ TruthyStr(metadata[1].title)
                           \/ TruthyStr(metadata[1].description)
            embeds == /\ ~call.is_draft
                      /\ call.ext = "ready"
                      /\ has_text
                      /\ call.model_ok
        IN  /\ ~call.out.raised
            /\ call.out.data.metadata = call.before.metadata
            /\ embeds <=> call.out.data.aisearch # None
            /\ embeds => call.out.data.aisearch
                             = Some([embedding |-> encode(DumperText(call.before))])
            /\ ~embeds => call.out.data = call.before
            /\ call.is_draft => call.out.logged = "none"

\* a published record without a description got the embedding of its title
C27_Witness ==
    /\ last.op = "dump"
    /\ ~last.svc[1].is_draft
    /\ last.svc[1].before.metadata
           = Some([title |-> Some("A Title"), description |-> None])
    /\ last.svc[1].out.data.aisearch = Some([embedding |-> encode("A Title")])

====
